---- MODULE Spec2Model ----
(***************************************************************************)
(* Model of the hadock ingestion pipeline of busoc/panda:                  *)
(*   - the frame reader (hadock/proto.go): EncodePacket, DecodePacket,     *)
(*     DecodeBinaryPackets, DecodeCompressedPackets;                       *)
(*   - the notifier pool (hadock/notifier.go): Pool.Notify, Pool.notify;   *)
(*   - the HRDP store (hadock storage): hrdpstore.Store.                   *)
(* Each component has its own specification; the variables of the other    *)
(* components stay at their idle values.                                   *)
(***************************************************************************)
EXTENDS Integers, Sequences, FiniteSets, TLC

VARIABLES
    \* frame reader: one connection decoded by one reader goroutine
    mode,      \* "binary" (DecodeBinaryPackets) or "compressed" (DecodeCompressedPackets)
    src,       \* the frames the peer wrote on the connection (their bytes are r)
    rfinal,    \* the error every Read of the connection returns once these bytes are
               \* consumed: "EOF" (the peer closed) or "ECONNRESET"
    gz,        \* compressed variant: the results the gzip reader will return, in order
    is,        \* the allow-list of instance ids handed to the reader
    pos,       \* number of bytes (binary) or gzip reads (compressed) consumed so far
    rpc,       \* reader goroutine: "start", "decode", "send", "done"
    pkt,       \* the packet the reader is about to send on q
    vs,        \* compressed variant: the last chunk read without error
    qclosed,   \* the packet channel q has been closed
    out,       \* packets the consumer received from q, in order
    errs,      \* history: for each DecodePacket call of the reader, in order, the
               \* error it returned, the bytes consumed after it and the packets
               \* received before it
    \* codec: EncodePacket followed by DecodePacket on one packet
    cpkt, cwire, cres, cpc,
    \* notifier pool
    pmenu,     \* the products the callers of Pool.Notify hand to the pool
    notifiers, \* p.notifiers: how the Notify of each behaves ("ok", "error", "block")
    running,   \* per notifier, its Notify calls that have not returned
    ncalls,    \* history: per notifier, how many times each Message was handed to it
    queue,     \* Pool.queue: the items sent by Notify and not yet received by notify
    cache,     \* the cache of notify: key -> batch
    tasks,     \* the goroutines started at a tick that have not built their Message yet
    emitted,   \* the Messages built so far, each with the batch it was built from
    nticks,    \* ticks handled so far
    handed,    \* history: every item handed to Notify, in order (the id of an item
               \* is its index here)
    arrived,   \* history: for each item received by notify, in order, the number of
               \* ticks handled before it was received
    \* HRDP store
    buf,       \* hrdpstore.buf: the records accumulated, in order
    files,     \* the files of the data directory: path -> content
    writes,    \* history: the ioutil.WriteFile calls that succeeded, in order
    stored,    \* history: the products handed to Store, in order
    \* fan-out: multistore.Store or multiModule.Process on one product
    fkind,     \* "store" (multistore.Store) or "process" (multiModule.Process)
    fouts,     \* what each configured sink or child returns when called, in order
    fidx,      \* iterations of the range loop done so far
    ferr,      \* the local err of the call
    fcalls,    \* history: the sinks or children called, in order
    fpc,       \* "loop", "returned"
    \* product decoding: DecodeHR(v) applied to one payload, then Valid and Filename
    vver,      \* the declared version handed to DecodeHR
    vbs,       \* the payload
    vres,      \* what the decoder returned
    vvalid,    \* what Valid returned for the product
    vname,     \* what Filename returned for the product
    vpc,       \* "decode", "valid", "done"
    \* the listen command: ListenPackets, Convert and the loop of runListen
    conns,     \* per connection: the frames its peer wrote (src) and its reader: pos,
               \* rpc ("wait", "decode", "send", "done"), the packet being sent (pkt)
               \* and the versions of the packets emitted so far (vers)
    lclosed,   \* Accept has failed: the listener is closed and so is the channel q
    lq,        \* the buffered channel q of ListenPackets
    cvpc,      \* Convert's goroutine: "recv", "send", "done"
    cvitem,    \* the item Convert is sending on its channel
    cqclosed,  \* Convert's channel has been closed
    mpc,       \* the loop of runListen: "recv", "store", "enqueue", "returned"
    mitem,     \* the item of the current iteration
    mqueue,    \* the buffered channel queue of runListen
    crashed,   \* a goroutine has panicked
    lstored,   \* history: the items handed to fs.Store, in order, each with the value
               \* of age == 0 || time.Since(i.Timestamp()) <= age for it
    lnotified, \* history: the tags of the items handed to pool.Notify, in order
    processed, \* history: the tags of the items handed to ms.Process, in order
    \* proxy: one proxy returned by DialProxy and the Write calls made on it
    pz,        \* DialProxy wrapped the socket in a gzip writer
    plevel,    \* p.level
    psock,     \* p.Conn: the rank of the socket among those dialed and kept
    pwriter,   \* p.writer: its kind ("conn" or "gzip"), the socket it writes to, the
               \* level of a gzip writer and the error a gzip writer holds on to
    plog,      \* history: one record per Write call
    \* limiter: the handlers of the requests of one remote address
    lreq,      \* requests that have not looked up their visitor yet
    lmissed,   \* handlers that found no visitor and hold a new one, not yet in the map
    lheld,     \* per visitor, the handlers that hold it and have not called Allow yet
    lmap,      \* l.visitors[r.RemoteAddr]: the rank of the visitor, 0 if none
    ltokens,   \* per visitor, the tokens left in its rate.Limiter
    ladmitted, \* requests handed to h.ServeHTTP
    ldenied,   \* requests answered with StatusTooManyRequests
    \* storage: one filestore and its file system, and one call of NewHTTPStorage
    fgranul,   \* f.granul
    fhard,     \* f.harddir exists and is a directory
    fsys,      \* the file system: names (path -> inode) and data (content per inode)
    fcreated,  \* history: per path, the content it had when it was created
    fslog,     \* history: one record per call of filestore.Store
    hin,       \* the location given to NewHTTPStorage
    hres,      \* what NewHTTPStorage returned: "none" (not called), "store", "error"
    \* notifiers: one debugger (logger) and one notifier (UDP) sharing their Options
    nopts,     \* the *Options of the notifiers (NilOptions for nil)
    nlog,      \* history: one record per call of Notify
    \* replay: one Write of the replay writer and the decoding of what it wrote
    tbs,       \* the payload handed to writePacket
    tsize,     \* r.size
    tframes,   \* the fragments preparePacketV2 returned, in order
    tres,      \* what DecodePacket returned for the bytes of these fragments
    tpc,       \* "prepare", "decode", "done"
    \* limiter: purge, and the requests of two remote addresses, one at a time each
    sclock,    \* the time, in seconds
    sticked,   \* the time of the last tick purge has handled
    swhen,     \* per visitor ever made, its field when
    smap,      \* l.visitors: per address, the rank of its visitor, 0 if none
    hpc,       \* per address, where its handler is: "idle", "insert", "allow"
    sheld,     \* per address, the visitor its handler holds
    spc,       \* purge: "wait" (for a tick) or "delete" (between scan and delete)
    sns,       \* the names purge collected in its scan
    sdeleted,  \* history: per deletion, the address and how long its visitor was idle
    \* worker pool (cmd/internal/opts): Pool.Run and the callers of its methods
    wworkers,  \* the names in p.workers
    wrpc,      \* Run: "select", "handle" (a request received), "failures" (at
               \* p.failures <- err), "start" (at p.start <- w.String())
    wreq,      \* the request Run received
    wcall,     \* per caller: pc ("idle", "send", "check") and the call it is making
    wdone      \* per caller, the calls that have returned

readerVars == <<mode, src, rfinal, gz, is, pos, rpc, pkt, vs, qclosed, out, errs>>
codecVars  == <<cpkt, cwire, cres, cpc>>
poolVars   == <<pmenu, notifiers, running, ncalls, queue, cache, tasks, emitted, nticks, handed, arrived>>
hrdpVars   == <<buf, files, writes, stored>>
fanVars    == <<fkind, fouts, fidx, ferr, fcalls, fpc>>
vmuVars    == <<vver, vbs, vres, vvalid, vname, vpc>>
listenVars == <<conns, lclosed, lq, cvpc, cvitem, cqclosed, mpc, mitem, mqueue,
                crashed, lstored, lnotified, processed>>
proxyVars  == <<pz, plevel, psock, pwriter, plog>>
limVars    == <<lreq, lmissed, lheld, lmap, ltokens, ladmitted, ldenied>>
storeVars  == <<fgranul, fhard, fsys, fcreated, fslog, hin, hres>>
notifyVars == <<nopts, nlog>>
replayVars == <<tbs, tsize, tframes, tres, tpc>>
sweepVars  == <<sclock, sticked, swhen, smap, hpc, sheld, spc, sns, sdeleted>>
workVars   == <<wworkers, wrpc, wreq, wcall, wdone>>
vars == <<readerVars, codecVars, poolVars, hrdpVars, fanVars, vmuVars, listenVars,
          proxyVars, limVars, storeVars, notifyVars, replayVars, sweepVars, workVars>>

notReader == <<codecVars, poolVars, hrdpVars, fanVars, vmuVars, listenVars, proxyVars,
               limVars, storeVars, notifyVars, replayVars, sweepVars, workVars>>
notCodec == <<readerVars, poolVars, hrdpVars, fanVars, vmuVars, listenVars, proxyVars,
              limVars, storeVars, notifyVars, replayVars, sweepVars, workVars>>
notPool == <<readerVars, codecVars, hrdpVars, fanVars, vmuVars, listenVars, proxyVars,
             limVars, storeVars, notifyVars, replayVars, sweepVars, workVars>>
notHrdp == <<readerVars, codecVars, poolVars, fanVars, vmuVars, listenVars, proxyVars,
             limVars, storeVars, notifyVars, replayVars, sweepVars, workVars>>
notFan == <<readerVars, codecVars, poolVars, hrdpVars, vmuVars, listenVars, proxyVars,
            limVars, storeVars, notifyVars, replayVars, sweepVars, workVars>>
notVmu == <<readerVars, codecVars, poolVars, hrdpVars, fanVars, listenVars, proxyVars,
            limVars, storeVars, notifyVars, replayVars, sweepVars, workVars>>
notListen == <<readerVars, codecVars, poolVars, hrdpVars, fanVars, vmuVars, proxyVars,
               limVars, storeVars, notifyVars, replayVars, sweepVars, workVars>>
notProxy == <<readerVars, codecVars, poolVars, hrdpVars, fanVars, vmuVars, listenVars,
              limVars, storeVars, notifyVars, replayVars, sweepVars, workVars>>
notLim == <<readerVars, codecVars, poolVars, hrdpVars, fanVars, vmuVars, listenVars,
            proxyVars, storeVars, notifyVars, replayVars, sweepVars, workVars>>
notStore == <<readerVars, codecVars, poolVars, hrdpVars, fanVars, vmuVars, listenVars,
              proxyVars, limVars, notifyVars, replayVars, sweepVars, workVars>>
notNotify == <<readerVars, codecVars, poolVars, hrdpVars, fanVars, vmuVars, listenVars,
               proxyVars, limVars, storeVars, replayVars, sweepVars, workVars>>
notReplay == <<readerVars, codecVars, poolVars, hrdpVars, fanVars, vmuVars, listenVars,
               proxyVars, limVars, storeVars, notifyVars, sweepVars, workVars>>
notSweep == <<readerVars, codecVars, poolVars, hrdpVars, fanVars, vmuVars, listenVars,
              proxyVars, limVars, storeVars, notifyVars, replayVars, workVars>>
notWork == <<readerVars, codecVars, poolVars, hrdpVars, fanVars, vmuVars, listenVars,
             proxyVars, limVars, storeVars, notifyVars, replayVars, sweepVars>>

----------------------------------------------------------------------------
(* Bounds of the model *)

MaxFrames == 3      \* frames written on one connection
MaxGzReads == 2     \* gzip reads before the final EOF
MaxPayload == 2     \* payload bytes of a packet handed to EncodePacket

----------------------------------------------------------------------------
(* Generic helpers *)

RECURSIVE Flatten(_)
Flatten(ss) == IF ss = <<>> THEN <<>> ELSE Head(ss) \o Flatten(Tail(ss))

Range(s) == {s[i] : i \in DOMAIN s}

Perms(n) == {f \in [1..n -> 1..n] : \A i, j \in 1..n : i # j => f[i] # f[j]}

\* every order sort.Slice(ps, less) may leave ps in, less[i, j] comparing the
\* elements at the indices i and j of ps: sort.Slice is not stable, so elements that
\* compare equal may end in any relative order
SortSlice(ps, less) ==
    {[i \in 1..Len(ps) |-> ps[f[i]]] : f \in
        {g \in Perms(Len(ps)) : \A i, j \in 1..Len(ps) :
            i < j => ~less[g[j], g[i]]}}

\* big-endian encodings (encoding/binary, BigEndian)
BE8(v)  == <<v % 256>>
BE16(v) == <<(v \div 256) % 256, v % 256>>
BE32(v) == <<(v \div 16777216) % 256, (v \div 65536) % 256, (v \div 256) % 256, v % 256>>

RECURSIVE BEValue(_)
BEValue(bs) == IF bs = <<>> THEN 0
               ELSE BEValue(SubSeq(bs, 1, Len(bs) - 1)) * 256 + bs[Len(bs)]

\* a uint32 read big-endian. TLC's integers are 32-bit signed: a value of 2^31 or
\* more is represented by 2^31 - 1. The model reads such a value only as a payload
\* length, which then exceeds what any stream of the model holds.
U32(bs) == IF bs[1] >= 128 THEN 2147483647 ELSE BEValue(bs)

\* io.ReadFull of n bytes from stream s after p consumed bytes (binary.Read of a
\* fixed-size value is an io.ReadFull of its size)
ReadFull(s, p, n) ==
    IF n = 0 THEN [err |-> "nil", bs |-> <<>>, pos |-> p]
    ELSE IF Len(s) - p = 0 THEN [err |-> "EOF", bs |-> <<>>, pos |-> p]
    ELSE IF Len(s) - p < n
         THEN [err |-> "ErrUnexpectedEOF", bs |-> SubSeq(s, p + 1, Len(s)), pos |-> Len(s)]
    ELSE [err |-> "nil", bs |-> SubSeq(s, p + 1, p + n), pos |-> p + n]

----------------------------------------------------------------------------
(* hadock/proto.go: constants and the Packet type *)

\* Preamble (0xf82e3553) as the four bytes binary.BigEndian reads it from
Preamble == <<248, 46, 53, 83>>
HadockVersion1 == 0
HadockVersion2 == 1

Packet(protocol, version, instance, sequence, length, payload, sum, curr, last) ==
    [Protocol |-> protocol, Version |-> version, Instance |-> instance,
     Sequence |-> sequence, Length |-> length, Payload |-> payload, Sum |-> sum,
     Curr |-> curr, Last |-> last]

NewPacket == Packet(0, 0, 0, 0, 0, <<>>, 0, 0, 0)

RECURSIVE BitOr(_, _)
BitOr(a, b) == IF a = 0 THEN b ELSE IF b = 0 THEN a
               ELSE (IF a % 2 = 1 \/ b % 2 = 1 THEN 1 ELSE 0) + 2 * BitOr(a \div 2, b \div 2)

\* EncodePacket: the prefix byte is uint8(p.Protocol<<4 | p.Version); no preamble is
\* written
EncodePacket(p) ==
    IF p.Version # HadockVersion1 THEN [err |-> "not yet implemented", bs |-> <<>>]
    ELSE [err |-> "nil",
          bs  |-> BE8(BitOr((p.Protocol * 16) % 256, p.Version))
                  \o BE8(p.Instance) \o BE16(p.Sequence) \o BE32(p.Length)
                  \o p.Payload \o BE16(p.Sum)]

\* Each reader below is written as the chain of its reads: one operator per read,
\* taking the result of the read and going on to the next.

\* readPreamble: [err, prefix, pos]
readPrefix(b) ==
    [err |-> b.err, prefix |-> IF b.err = "nil" THEN BEValue(b.bs) ELSE 0, pos |-> b.pos]

checkPreamble(s, a) ==
    IF a.err # "nil" THEN [err |-> a.err, prefix |-> 0, pos |-> a.pos]
    ELSE IF a.bs # Preamble
         THEN [err |-> "invalid preamble", prefix |-> 0, pos |-> a.pos]
    ELSE readPrefix(ReadFull(s, a.pos, 2))

readPreamble(s, p0) == checkPreamble(s, ReadFull(s, p0, 4))

\* readPacket fills Sequence, Length, Payload and Sum of p: [err, p, pos]
readSum(p, d) ==
    [err |-> d.err,
     p   |-> IF d.err = "nil" THEN [p EXCEPT !.Sum = BEValue(d.bs)] ELSE p,
     pos |-> d.pos]

readPayload(s, p, c) ==
    IF c.err # "nil" THEN [err |-> c.err, p |-> p, pos |-> c.pos]
    ELSE readSum([p EXCEPT !.Payload = c.bs], ReadFull(s, c.pos, 2))

readLength(s, p, b) ==
    IF b.err # "nil" THEN [err |-> b.err, p |-> p, pos |-> b.pos]
    ELSE readPayload(s, [p EXCEPT !.Length = U32(b.bs)], ReadFull(s, b.pos, U32(b.bs)))

readSequence(s, p, a) ==
    IF a.err # "nil" THEN [err |-> a.err, p |-> p, pos |-> a.pos]
    ELSE readLength(s, [p EXCEPT !.Sequence = BEValue(a.bs)], ReadFull(s, a.pos, 4))

readPacket(s, p0, p) == readSequence(s, p, ReadFull(s, p0, 2))

\* readFragment: [final, err, p, pos]; final is p.Curr == p.Last
fragmentResult(p, c) ==
    [final |-> p.Curr = p.Last, err |-> c.err, p |-> c.p, pos |-> c.pos]

readLast(s, p, b) ==
    IF b.err # "nil" THEN [final |-> FALSE, err |-> b.err, p |-> p, pos |-> b.pos]
    ELSE fragmentResult([p EXCEPT !.Last = BEValue(b.bs)],
                        readPacket(s, b.pos, [p EXCEPT !.Last = BEValue(b.bs)]))

readCurr(s, p, a) ==
    IF a.err # "nil" THEN [final |-> FALSE, err |-> a.err, p |-> p, pos |-> a.pos]
    ELSE readLast(s, [p EXCEPT !.Curr = BEValue(a.bs)], ReadFull(s, a.pos, 2))

readFragment(s, p0, p) == readCurr(s, p, ReadFull(s, p0, 2))

\* one iteration of the fragment loop of DecodePacket (case HadockVersion2), ps
\* being the fragments read so far: [more, err, ps, pos]; more says that the loop
\* goes on to another fragment
\* (a fragment loop that does not compare the prefix of the next fragment)
nextPreambleAnyPrefix(prefix, ps, x) ==
    IF x.err # "nil" THEN [more |-> FALSE, err |-> x.err, ps |-> ps, pos |-> x.pos]
    ELSE [more |-> TRUE, err |-> "nil", ps |-> ps, pos |-> x.pos]

nextPreamble(prefix, ps, x) ==
    IF x.err # "nil" THEN [more |-> FALSE, err |-> x.err, ps |-> ps, pos |-> x.pos]
    ELSE IF x.prefix # prefix
         THEN [more |-> FALSE, err |-> "version mismatched", ps |-> ps, pos |-> x.pos]
    ELSE [more |-> TRUE, err |-> "nil", ps |-> ps, pos |-> x.pos]

appendFragment(s, prefix, ps, f) ==
    IF f.err # "nil" THEN [more |-> FALSE, err |-> f.err, ps |-> ps, pos |-> f.pos]
    ELSE IF f.final
         THEN [more |-> FALSE, err |-> "nil", ps |-> Append(ps, f.p), pos |-> f.pos]
    ELSE nextPreamble(prefix, Append(ps, f.p), readPreamble(s, f.pos))

fragmentStep(s, p0, prefix, ps) ==
    appendFragment(s, prefix, ps, readFragment(s, p0, NewPacket))

\* the fragment loop: [more, err, ps, pos]; without error ps holds the fragments in
\* arrival order, the last one being the final fragment
RECURSIVE fragmentLoop(_, _, _)
fragmentLoop(s, prefix, st) ==
    IF st.more THEN fragmentLoop(s, prefix, fragmentStep(s, st.pos, prefix, st.ps))
    ELSE st

readFragments(s, p0, prefix) ==
    fragmentLoop(s, prefix, [more |-> TRUE, err |-> "nil", ps |-> <<>>, pos |-> p0])

LessCurr(a, b) == a.Curr < b.Curr

\* the packet of a complete reassembly, the fragments being in the order o that
\* sort.Slice left them in: Sequence and Length are those of the final fragment v
reassemble(p, v, o) ==
    [p EXCEPT !.Sequence = v.Sequence, !.Length = v.Length,
              !.Payload = Flatten([i \in 1..Len(o) |-> o[i].Payload])]

\* decodeV2 without the sort.Slice by Curr: the fragments stay in arrival order
decodeV2Unsorted(p, fs) ==
    IF fs.err # "nil" THEN {[err |-> fs.err, p |-> NewPacket, pos |-> fs.pos]}
    ELSE {[err |-> "nil", p |-> reassemble(p, fs.ps[Len(fs.ps)], fs.ps), pos |-> fs.pos]}

decodeV2(p, fs) ==
    IF fs.err # "nil" THEN {[err |-> fs.err, p |-> NewPacket, pos |-> fs.pos]}
    ELSE {[err |-> "nil", p |-> reassemble(p, fs.ps[Len(fs.ps)], o), pos |-> fs.pos] :
             o \in SortSlice(fs.ps, [i, j \in DOMAIN fs.ps |-> LessCurr(fs.ps[i], fs.ps[j])])}

decodeV1(v) == {[err |-> v.err, p |-> v.p, pos |-> v.pos]}

prefixPacket(prefix) ==
    [NewPacket EXCEPT !.Protocol = (prefix \div 4096) % 256,
                      !.Version  = (prefix \div 256) % 16,
                      !.Instance = prefix % 256]

decodeBody(s, h, p) ==
    IF h.err # "nil" THEN {[err |-> h.err, p |-> NewPacket, pos |-> h.pos]}
    ELSE IF p.Protocol = HadockVersion1 THEN decodeV1(readPacket(s, h.pos, p))
    ELSE IF p.Protocol = HadockVersion2 THEN decodeV2(p, readFragments(s, h.pos, h.prefix))
    ELSE {[err |-> "ErrUnsupportedProtocol", p |-> NewPacket, pos |-> h.pos]}

decodeHeader(s, h) == decodeBody(s, h, prefixPacket(h.prefix))

\* DecodePacket: the set of results [err, p, pos] it may return on stream s after p0
\* consumed bytes (one result, unless two fragments carry the same Curr).
\* p = NewPacket stands for the nil packet returned with an error.
DecodePacket(s, p0) == decodeHeader(s, readPreamble(s, p0))

----------------------------------------------------------------------------
(* The peer of the connection: frames as the replay writer lays them out *)

\* a frame on the wire: preamble, prefix, for protocol 1 the curr/last pair, then
\* sequence, length, payload and sum; keep > 0 truncates the frame to keep bytes
Frame(pre, proto, ver, inst, curr, last, seq, payload, sum, keep) ==
    [pre |-> pre, proto |-> proto, ver |-> ver, inst |-> inst, curr |-> curr,
     last |-> last, seq |-> seq, payload |-> payload, sum |-> sum, keep |-> keep]

Prefix(f) == f.proto * 4096 + f.ver * 256 + f.inst

WireFrame(f) ==
    LET bs == f.pre \o BE16(Prefix(f))
              \o (IF f.proto = HadockVersion2 THEN BE16(f.curr) \o BE16(f.last) ELSE <<>>)
              \o BE16(f.seq) \o BE32(Len(f.payload)) \o f.payload \o BE16(f.sum)
    IN IF f.keep > 0 THEN SubSeq(bs, 1, f.keep) ELSE bs

\* the bytes of the connection
Wire(fs) == Flatten([i \in 1..Len(fs) |-> WireFrame(fs[i])])

BadPreamble == <<18, 52, 86, 120>>     \* 0x12345678

V1a    == Frame(Preamble, 0, 0, 1, 0, 0, 1, <<65>>, 0, 0)
V1b    == Frame(Preamble, 0, 0, 2, 0, 0, 2, <<>>, 0, 0)
Frag0  == Frame(Preamble, 1, 0, 1, 0, 2, 7, <<65, 66>>, 0, 0)
Frag1  == Frame(Preamble, 1, 0, 1, 1, 2, 7, <<67, 68>>, 0, 0)
Frag2  == Frame(Preamble, 1, 0, 1, 2, 2, 7, <<69, 70>>, 0, 0)
BadPre == Frame(BadPreamble, 0, 0, 1, 0, 0, 3, <<71, 72>>, 0, 0)
Proto2 == Frame(Preamble, 2, 0, 1, 0, 0, 4, <<>>, 0, 0)
CutV1  == Frame(Preamble, 0, 0, 1, 0, 0, 5, <<73>>, 0, 8)
\* fragment 1 of a packet of another instance: its prefix differs from that of Frag0
Frag1x == Frame(Preamble, 1, 0, 2, 1, 2, 7, <<67, 68>>, 0, 0)

FrameMenu == {V1a, V1b, Frag0, Frag1, Frag2, BadPre, Proto2, CutV1, Frag1x}

SeqsUpTo(S, n) == UNION {[1..k -> S] : k \in 0..n}

\* allow-lists as the configuration may give them (not necessarily sorted)
AllowLists == {<<>>, <<1>>, <<2, 1>>}

\* compressed transport: the gzip header's Extra field, the chunks the gzip reader
\* returns without error, and the error it returns (and keeps returning) after them
GzStreams ==
    [extra : {<<1, 255>>}, chunks : SeqsUpTo({<<65>>, <<66, 67>>}, MaxGzReads),
     final : {"EOF", "ErrUnexpectedEOF", "ErrChecksum"}]

NoGz == [extra |-> <<0, 0>>, chunks |-> <<>>, final |-> "EOF"]

----------------------------------------------------------------------------
(* hadock/proto.go: DecodeBinaryPackets *)

r == Wire(src)

LessU8(a, b) == a < b

\* sort.Search(n, f): binary search of the smallest index in [0, n) where f holds
\* (n if none); f is given as the sequence of its values at the indices 0..n-1
RECURSIVE SearchLoop(_, _, _)
SearchLoop(f, i, j) ==
    IF i < j
    THEN LET h == (i + j) \div 2 IN
         IF ~f[h + 1] THEN SearchLoop(f, h + 1, j) ELSE SearchLoop(f, i, h)
    ELSE i

Search(n, f) == SearchLoop(f, 0, n)

\* the condition of the if in case nil: the packet's instance is not in the list
NotAllowed(list, p) ==
    LET ix == Search(Len(list), [i \in 1..Len(list) |-> list[i] >= p.Instance]) IN
    Len(list) > 0 /\ (ix >= Len(list) \/ list[ix + 1] # p.Instance)

\* the reader goroutine sorts the allow-list before its loop
SortInstances ==
    /\ mode = "binary" /\ rpc = "start"
    /\ is' \in SortSlice(is, [i, j \in DOMAIN is |-> LessU8(is[i], is[j])])
    /\ rpc' = "decode"
    /\ UNCHANGED <<mode, src, rfinal, gz, pos, pkt, vs, qclosed, out, errs>>
    /\ UNCHANGED notReader

\* what the switch on err of the loop does: "send" (reach q <- p), "return" or
\* "continue". In case nil the break of the if leaves the switch, not the loop, so a
\* packet that is not allowed reaches q <- p like an allowed one.
\* (a switch that goes on after ErrUnsupportedProtocol)
SwitchSkipProtocol(err, notAllowed) ==
    IF err = "nil" THEN "send"
    ELSE IF err \in {"EOF", "ErrUnsupportedVMUVersion"} THEN "return"
    ELSE "continue"

\* (a switch whose default case returns instead of continuing)
SwitchFatalDefault(err, notAllowed) == IF err = "nil" THEN "send" ELSE "return"

Switch(err, notAllowed) ==
    IF err = "nil" THEN (IF notAllowed THEN "send" ELSE "send")
    ELSE IF err \in {"EOF", "ErrUnsupportedProtocol", "ErrUnsupportedVMUVersion"}
         THEN "return"
    ELSE "continue"

\* the error of a read that finds the bytes of the connection exhausted: io.ReadFull
\* turns the EOF of the connection into io.EOF (nothing read) or io.ErrUnexpectedEOF
\* (part read), and hands any other error of the connection back as it is
ReadError(err) ==
    IF rfinal # "EOF" /\ err \in {"EOF", "ErrUnexpectedEOF"} THEN rfinal ELSE err

\* errs with the call e added; a call that returns what the call before it returned,
\* at the same place, is not recorded again
Recorded(e) == IF errs # <<>> /\ errs[Len(errs)] = e THEN errs ELSE Append(errs, e)

\* one iteration of the loop up to the send: DecodePacket and the switch on err
DecodeStep ==
    /\ mode = "binary" /\ rpc = "decode"
    /\ \E res \in DecodePacket(r, pos) :
         LET err == ReadError(res.err)
             to == Switch(err, NotAllowed(is, res.p)) IN
         /\ pos' = res.pos
         /\ errs' = Recorded([err |-> err, pos |-> res.pos, nout |-> Len(out)])
         /\ \/ /\ to = "send"
               /\ rpc' = "send" /\ pkt' = res.p /\ UNCHANGED qclosed
            \/ /\ to = "return"        \* the deferred close(q) runs
               /\ rpc' = "done" /\ qclosed' = TRUE /\ UNCHANGED pkt
            \/ /\ to = "continue"
               /\ rpc' = "decode" /\ UNCHANGED <<pkt, qclosed>>
    /\ UNCHANGED <<mode, src, rfinal, gz, is, vs, out>>
    /\ UNCHANGED notReader

\* q <- p: q is unbuffered, the send completes when the consumer receives
Send ==
    /\ rpc = "send"
    /\ out' = Append(out, pkt)
    /\ rpc' = "decode"
    /\ UNCHANGED <<mode, src, rfinal, gz, is, pos, pkt, vs, qclosed, errs>>
    /\ UNCHANGED notReader

----------------------------------------------------------------------------
(* hadock/proto.go: DecodeCompressedPackets *)

MaxOut == 3        \* packets received from a compressed stream whose error persists

\* gzip.NewReader
OpenGzip ==
    /\ mode = "compressed" /\ rpc = "start"
    /\ rpc' = "decode"
    /\ UNCHANGED <<mode, src, rfinal, gz, is, pos, pkt, vs, qclosed, out, errs>>
    /\ UNCHANGED notReader

\* g.Read(bs): the next chunk, or the final error once the chunks are consumed
GzRead(g, n) ==
    IF n < Len(g.chunks) THEN [err |-> "nil", bs |-> g.chunks[n + 1]]
    ELSE [err |-> g.final, bs |-> <<>>]

\* one iteration of the loop up to the send. On EOF the goroutine returns; q is
\* not closed by any statement of DecodeCompressedPackets.
GzStep ==
    /\ mode = "compressed" /\ rpc = "decode" /\ Len(out) < MaxOut
    /\ LET rd == GzRead(gz, pos)
           version == BEValue(gz.extra) IN
       /\ pos' = IF rd.err = "nil" THEN pos + 1 ELSE pos
       /\ \/ /\ rd.err \in {"EOF", "ErrUnexpectedEOF"}
             /\ rpc' = "done" /\ UNCHANGED <<pkt, vs>>
          \/ /\ rd.err \notin {"EOF", "ErrUnexpectedEOF"}
             /\ vs' = IF rd.err = "nil" THEN rd.bs ELSE vs
             /\ pkt' = [NewPacket EXCEPT !.Version = (version \div 256) % 16,
                                         !.Instance = version % 256,
                                         !.Payload = vs']
             /\ rpc' = "send"
    /\ UNCHANGED <<mode, src, rfinal, gz, is, qclosed, out, errs>>
    /\ UNCHANGED notReader

----------------------------------------------------------------------------
(* EncodePacket then DecodePacket on one packet *)

PacketInputs ==
    {Packet(pr, ve, ins, sq, ln, pl, sm, 0, 0) :
        pr \in {0, 1}, ve \in {0, 1}, ins \in {0, 255}, sq \in {1, 13651},
        ln \in {0, 1}, pl \in SeqsUpTo({65, 66}, MaxPayload), sm \in {0, 258}}

NoResult == [err |-> "none", p |-> NewPacket, pos |-> 0]
NoWire == [err |-> "none", bs |-> <<>>]

Encode ==
    /\ cpc = "encode"
    /\ cwire' = EncodePacket(cpkt)
    /\ cpc' = IF cwire'.err = "nil" THEN "decode" ELSE "done"
    /\ UNCHANGED <<cpkt, cres>>
    /\ UNCHANGED notCodec

Decode ==
    /\ cpc = "decode"
    /\ cres' \in DecodePacket(cwire.bs, 0)
    /\ cpc' = "done"
    /\ UNCHANGED <<cpkt, cwire>>
    /\ UNCHANGED notCodec


----------------------------------------------------------------------------
(* hadock/notifier.go: the notifier pool *)

MaxItems == 3      \* items handed to the pool
MaxTicks == 2      \* ticks of the pool's ticker
QueueCap == 2      \* capacity of Pool.queue in the model (1000 in NewPool)

\* an Item: the instance and the accessors of its product that notify uses
Item(id, instance, realtime, origin, sequence, timestamp) ==
    [id |-> id, Instance |-> instance, Realtime |-> realtime, Origin |-> origin,
     Sequence |-> sequence, Timestamp |-> timestamp]

\* the products handed to the pool: <<realtime, origin, instance, sequence,
\* timestamp>>. Those of instance 0 cover equal sequences with different
\* timestamps and sequences in the opposite order of the timestamps.
ItemKeys == {<<TRUE, "51", 0>>, <<TRUE, "51", 1>>}
ItemMenu ==
    {<<TRUE, "51", 0, 1, 10>>, <<TRUE, "51", 0, 1, 20>>, <<TRUE, "51", 0, 2, 10>>,
     <<TRUE, "51", 0, 2, 20>>, <<TRUE, "51", 1, 1, 10>>, <<TRUE, "51", 1, 2, 20>>}

\* Filename(): the name of a product holds its sequence and its timestamp
Filename(p) == <<"file", p.Sequence, p.Timestamp>>

\* a key that leaves the instance out
KeyOfNoInstance(p) == [Realtime |-> p.Realtime, Origin |-> p.Origin, Instance |-> 0]

\* key{p.IsRealtime(), p.Origin(), p.Instance}
KeyOf(p) == [Realtime |-> p.Realtime, Origin |-> p.Origin, Instance |-> p.Instance]

\* a comparison by timestamp instead of sequence
LessTimestamp(a, b) == a.Timestamp < b.Timestamp

LessSequence(a, b) == a.Sequence < b.Sequence

\* NewMessage with the operands of Elapsed exchanged
NewMessageSwapped(k, o) ==
    LET first == o[1]
        last  == o[Len(o)] IN
    [Origin |-> k.Origin, Instance |-> k.Instance, Realtime |-> k.Realtime,
     Count |-> Len(o), Sequence |-> first.Sequence,
     Elapsed |-> first.Timestamp - last.Timestamp,
     Acquired |-> first.Timestamp, Reference |-> Filename(first)]

\* the Message a goroutine of a tick builds for key k, o being its batch as
\* sort.Slice left it
NewMessage(k, o) ==
    LET first == o[1]
        last  == o[Len(o)] IN
    [Origin |-> k.Origin, Instance |-> k.Instance, Realtime |-> k.Realtime,
     Count |-> Len(o), Sequence |-> first.Sequence,
     Elapsed |-> last.Timestamp - first.Timestamp,
     Acquired |-> first.Timestamp, Reference |-> Filename(first)]

\* Pool.Notify: p.queue <- i (blocks while the queue is full)
Notify ==
    /\ Len(handed) < MaxItems /\ Len(queue) < QueueCap
    /\ \E m \in pmenu :
         LET i == Item(Len(handed) + 1, m[3], m[1], m[2], m[4], m[5]) IN
         /\ queue' = Append(queue, i)
         /\ handed' = Append(handed, i)
    /\ UNCHANGED <<pmenu, notifiers, running, ncalls, cache, tasks, emitted, nticks, arrived>>
    /\ UNCHANGED notPool

\* cache[k] = append(cache[k], p.HRPacket)
Cached(c, p) ==
    LET k == KeyOf(p) IN
    [x \in DOMAIN c \cup {k} |->
        IF x = k THEN (IF k \in DOMAIN c THEN Append(c[k], p) ELSE <<p>>) ELSE c[x]]

\* notify, case p, ok := <-p.queue
Receive ==
    /\ queue # <<>>
    /\ cache' = Cached(cache, Head(queue))
    /\ queue' = Tail(queue)
    /\ arrived' = Append(arrived, nticks)
    /\ UNCHANGED <<pmenu, notifiers, running, ncalls, tasks, emitted, nticks, handed>>
    /\ UNCHANGED notPool

\* the keys of the cache whose batch the tick hands to a goroutine and deletes
Flushed(c) == {k \in DOMAIN c : Len(c[k]) # 0}

\* notify, case <-t.C: one goroutine per non-empty batch, and delete(cache, k)
Tick ==
    /\ nticks < MaxTicks
    /\ nticks' = nticks + 1
    /\ tasks' = tasks \cup {[k |-> k, ps |-> cache[k], tick |-> nticks'] : k \in Flushed(cache)}
    /\ cache' = [k \in DOMAIN cache \ Flushed(cache) |-> cache[k]]
    /\ UNCHANGED <<pmenu, notifiers, running, ncalls, queue, emitted, handed, arrived>>
    /\ UNCHANGED notPool

\* the notifiers registered in the pool: a Notify returns nil ("ok"), returns an error
\* or never returns ("block")
NotifierLists ==
    {<<"ok">>, <<"block">>, <<"ok", "error">>, <<"error", "block">>, <<"block", "ok">>,
     <<"block", "error">>}

\* one more in a bag of Messages
Counted(b, e) ==
    [x \in DOMAIN b \cup {e} |-> IF x # e THEN b[x] ELSE IF e \in DOMAIN b THEN b[e] + 1 ELSE 1]

\* (a loop that calls n.Notify(m) itself: it stops at the first Notify that blocks)
HandedInTurn(ns) == {n \in DOMAIN ns : \A j \in 1..(n - 1) : ns[j] # "block"}

\* for _, n := range p.notifiers { go n.Notify(m) }: the notifiers whose Notify is
\* started, each in a goroutine of its own
Handed(ns) == DOMAIN ns

\* the goroutine of one batch: sort.Slice by sequence, build the Message, start one
\* goroutine per notifier
RunTask ==
    /\ \E t \in tasks :
       \E o \in SortSlice(t.ps, [i, j \in DOMAIN t.ps |-> LessSequence(t.ps[i], t.ps[j])]) :
         LET e == [msg |-> NewMessage(t.k, o), ps |-> t.ps, tick |-> t.tick]
             to == Handed(notifiers) IN
         /\ emitted' = emitted \cup {e}
         /\ tasks' = tasks \ {t}
         /\ ncalls' = [n \in DOMAIN notifiers |->
                         IF n \in to THEN Counted(ncalls[n], e) ELSE ncalls[n]]
         /\ running' = [n \in DOMAIN notifiers |->
                         IF n \in to THEN running[n] + 1 ELSE running[n]]
    /\ UNCHANGED <<pmenu, notifiers, queue, cache, nticks, handed, arrived>>
    /\ UNCHANGED notPool

\* go n.Notify(m): the call returns, with nil or with an error that nobody reads
NotifierReturn ==
    /\ \E n \in DOMAIN notifiers :
         /\ notifiers[n] # "block" /\ running[n] > 0
         /\ running' = [running EXCEPT ![n] = @ - 1]
    /\ UNCHANGED <<pmenu, notifiers, ncalls, queue, cache, tasks, emitted, nticks, handed,
                   arrived>>
    /\ UNCHANGED notPool

----------------------------------------------------------------------------
(* hadock storage: hrdpstore.Store *)

MaxStores == 3     \* calls of Store

Epoch == 315964819         \* seconds added by AdjustGenerationTime
FiveMinutes == 300         \* time.Minute * 5, in seconds

\* generation times of the products (unix seconds): two in the window [0, 300), then
\* 10:05:02-like times in the next window and in the next hour
GenTimes == {0, 120, 302, 3605}

\* time.Time.Truncate(d) and Minute() on unix seconds (UTC)
Truncate(t, d) == t - (t % d)
Minute(t) == (t \div 60) % 60

Digit == <<"0", "1", "2", "3", "4", "5", "6", "7", "8", "9">>

\* fmt.Sprintf("%02d", n) for -99 <= n <= 99, as its characters: the sign counts in
\* the width, the padding zeros follow it
Sprintf02(n) ==
    IF n <= -10 THEN <<"-", Digit[((-n) \div 10) + 1], Digit[((-n) % 10) + 1]>>
    ELSE IF n < 0 THEN <<"-", Digit[(-n) + 1]>>
    ELSE <<Digit[(n \div 10) + 1], Digit[(n % 10) + 1]>>

\* fmt.Sprintf("rt_%02d_%02d.dat", t.Minute()-5, t.Minute()-1): its two fields
FileName(t) == <<"rt", Sprintf02(Minute(t) - 5), Sprintf02(Minute(t) - 1)>>

\* the instance directory of joinPath and joinPathHRDP
InstanceDir(i) ==
    IF i = 0 THEN "TEST" ELSE IF i = 1 THEN "SIM1" ELSE IF i = 2 THEN "SIM2"
    ELSE IF i = 255 THEN "OPS" ELSE "DATA"

\* joinPathTime: base, then the <YYYY>/<DDD>/<HH> of the adjusted time as the number
\* of hours since the unix epoch, then for g > 0 the minute of the adjusted time
\* truncated to g seconds (g divides a day here, so that truncating from the zero
\* time and from the unix epoch agree)
joinPathTime(base, t, g) ==
    base \o <<(t + Epoch) \div 3600>>
         \o (IF g > 0 THEN <<Sprintf02(Minute(Truncate(t + Epoch, g)))>> ELSE <<>>)

joinPathHRDP(t, i) == joinPathTime(<<InstanceDir(i)>>, t, 0)

\* does Store flush before accumulating? t is gen.Truncate(time.Minute * 5)
FlushDue(t) == Minute(t) % 5 = 0

WriteFile(fs, path, bs) == [x \in DOMAIN fs \cup {path} |-> IF x = path THEN bs ELSE fs[x]]

\* hrdpstore.Store(i, p) for a product of generation time gen. io names the call
\* that fails in this Store, if any: "mkdir" (os.MkdirAll), "write"
\* (ioutil.WriteFile), "bytes" (p.Bytes), or "ok".
Store ==
    /\ Len(stored) < MaxStores
    /\ \E gen \in GenTimes, i \in {255}, io \in {"ok", "mkdir", "write", "bytes"} :
         LET t    == Truncate(gen, FiveMinutes)
             path == <<joinPathHRDP(t, i), FileName(t)>>
             rec  == [id |-> Len(stored) + 1, gen |-> gen]
             kept == IF FlushDue(t) THEN <<>> ELSE buf      \* h.buf.Reset()
             wrote == FlushDue(t) /\ io \notin {"mkdir", "write"}
             failed == (FlushDue(t) /\ io \in {"mkdir", "write"}) \/ io = "bytes"
         IN
         /\ stored' = Append(stored, [gen |-> gen, instance |-> i, io |-> io])
         /\ files' = IF wrote THEN WriteFile(files, path, buf) ELSE files
         /\ writes' = IF wrote
                      THEN Append(writes, [path |-> path, content |-> buf, by |-> rec.id])
                      ELSE writes
         /\ buf' = IF failed THEN kept ELSE Append(kept, rec)
    /\ UNCHANGED notHrdp

----------------------------------------------------------------------------
(* multistore.Store (hadock storage) and multiModule.Process (hadock/proto.go) *)

MaxSinks == 3      \* sinks of a multistore, children of a multiModule

\* what a sink's Store or a child's Process may return: nil or one of two errors
Outcomes == {"nil", "ea", "eb"}

\* one iteration of `for _, s := range m.ms` in multistore.Store:
\* if e := s.Store(i, p); e != nil { err = e }
StoreNext ==
    /\ fkind = "store" /\ fpc = "loop" /\ fidx < Len(fouts)
    /\ LET e == fouts[fidx + 1] IN
       /\ fcalls' = Append(fcalls, fidx + 1)
       /\ ferr' = IF e # "nil" THEN e ELSE ferr
    /\ fidx' = fidx + 1
    /\ UNCHANGED <<fkind, fouts, fpc>>
    /\ UNCHANGED notFan

\* (a Store that returns at the first failure)
StoreReturnEarly ==
    /\ fkind = "store" /\ fpc = "loop" /\ (fidx = Len(fouts) \/ ferr # "nil")
    /\ fpc' = "returned"
    /\ UNCHANGED <<fkind, fouts, fidx, ferr, fcalls>>
    /\ UNCHANGED notFan

\* return err, once the range loop of multistore.Store is over
StoreReturn ==
    /\ fkind = "store" /\ fpc = "loop" /\ fidx = Len(fouts)
    /\ fpc' = "returned"
    /\ UNCHANGED <<fkind, fouts, fidx, ferr, fcalls>>
    /\ UNCHANGED notFan

\* (the condition of multistore.Store: every error replaces the one before)
KeepsLastError(err, e) == e # "nil"

\* the condition under which multiModule.Process assigns err = e
KeepsError(err, e) == err = "nil" /\ e # "nil"

\* one iteration of `for _, m := range m.ms` in multiModule.Process:
\* if e := m.Process(i, p); err == nil && e != nil { err = e }
ProcessNext ==
    /\ fkind = "process" /\ fpc = "loop" /\ fidx < Len(fouts)
    /\ LET e == fouts[fidx + 1] IN
       /\ fcalls' = Append(fcalls, fidx + 1)
       /\ ferr' = IF KeepsError(ferr, e) THEN e ELSE ferr
    /\ fidx' = fidx + 1
    /\ UNCHANGED <<fkind, fouts, fpc>>
    /\ UNCHANGED notFan

\* return err, once the range loop of multiModule.Process is over
ProcessReturn ==
    /\ fkind = "process" /\ fpc = "loop" /\ fidx = Len(fouts)
    /\ fpc' = "returned"
    /\ UNCHANGED <<fkind, fouts, fidx, ferr, fcalls>>
    /\ UNCHANGED notFan

----------------------------------------------------------------------------
(* hrd.go: the VMU decoders, Bytes, Valid and Filename *)

MaxData == 17      \* data bytes of a payload (a v2 payload of 92 bytes or less is refused)

VMUHeaderLength  == 16
IDHeaderLengthV1 == 72
IDHeaderLengthV2 == 76
SDHeaderLengthV2 == 56
SDHeaderLengthV1 == 8

VMUProtocol1 == 1
VMUProtocol2 == 2

Video1  == 1
Video2  == 2
Science == 3

Zeros(n) == [i \in 1..n |-> 0]

\* The layout of a header: its fields in the order binary.Read reads them, each
\* <<name, width in bytes, kept>>. A field that is not kept is one the decoder reads
\* into a throw-away value (new(uint16), ...) and the encoder writes as zero. A kept
\* field is held as its bytes: binary.Read and binary.Write of a fixed-width value in
\* one byte order are inverse of each other.
VMULayout ==
    << <<"Channel", 1, TRUE>>, <<"Source", 1, TRUE>>, <<"pad1", 2, FALSE>>,
       <<"Sequence", 4, TRUE>>, <<"Coarse", 4, TRUE>>, <<"Fine", 2, TRUE>>,
       <<"pad2", 2, FALSE>> >>

SDHv1Layout == << <<"Sequence", 4, TRUE>>, <<"pad1", 4, FALSE>> >>

IDHv1Layout ==
    << <<"Sequence", 4, TRUE>>, <<"Coarse", 4, TRUE>>, <<"Fine", 2, TRUE>>,
       <<"Part", 1, TRUE>>, <<"Video", 1, TRUE>>, <<"Type", 1, TRUE>>,
       <<"Rate", 4, TRUE>>, <<"Pixels", 4, TRUE>>, <<"Region", 8, TRUE>>,
       <<"LineDrop", 1, TRUE>>, <<"FrameDrop", 2, TRUE>>, <<"pad1", 8, FALSE>>,
       <<"Info", 32, TRUE>> >>

SDHv2Layout ==
    << <<"Properties", 1, TRUE>>, <<"Sequence", 2, TRUE>>, <<"Originator", 4, TRUE>>,
       <<"Acquisition", 8, TRUE>>, <<"Auxiliary", 8, TRUE>>, <<"Id", 1, TRUE>>,
       <<"Info", 32, TRUE>> >>

IDHv2Layout ==
    << <<"Properties", 1, TRUE>>, <<"Sequence", 2, TRUE>>, <<"Originator", 4, TRUE>>,
       <<"Acquisition", 8, TRUE>>, <<"Auxiliary", 8, TRUE>>, <<"Id", 1, TRUE>>,
       <<"Type", 1, TRUE>>, <<"Pixels", 4, TRUE>>, <<"Region", 8, TRUE>>,
       <<"Dropping", 2, TRUE>>, <<"Scaling", 4, TRUE>>, <<"Ratio", 1, TRUE>>,
       <<"Info", 32, TRUE>> >>

RECURSIVE LayoutLength(_)
LayoutLength(l) == IF l = <<>> THEN 0 ELSE Head(l)[2] + LayoutLength(Tail(l))

FieldOffset(l, k) == LayoutLength(SubSeq(l, 1, k - 1))

KeptFields(l) == {l[k][1] : k \in {x \in DOMAIN l : l[x][3]}}

FieldIndex(l, name) == CHOOSE k \in DOMAIN l : l[k][1] = name

\* the sequence of binary.Read calls of a header decoder on the bytes of the header
decodeFields(l, bs) ==
    [n \in KeptFields(l) |->
        SubSeq(bs, FieldOffset(l, FieldIndex(l, n)) + 1,
                   FieldOffset(l, FieldIndex(l, n)) + l[FieldIndex(l, n)][2])]

\* the sequence of binary.Write calls of a header encoder
encodeFields(l, h) ==
    Flatten([k \in DOMAIN l |-> IF l[k][3] THEN h[l[k][1]] ELSE Zeros(l[k][2])])

decodeVMU(bs) == decodeFields(VMULayout, bs)
encodeVMU(v) == encodeFields(VMULayout, v)

HeaderLayout(type) ==
    IF type = "SDHv1" THEN SDHv1Layout ELSE IF type = "IDHv1" THEN IDHv1Layout
    ELSE IF type = "SDHv2" THEN SDHv2Layout ELSE IDHv2Layout

\* decodeSDHv1, decodeIDHv1, decodeSDHv2, decodeIDHv2: the header with its type
decodeHeaderOf(type, bs) == [type |-> type, f |-> decodeFields(HeaderLayout(type), bs)]

\* encodeSDHv1, encodeIDHv1, encodeSDHv2, encodeIDHv2
encodeHeaderOf(h) == encodeFields(HeaderLayout(h.type), h.f)

NoProduct == [kind |-> "nil"]

\* a decoder's results: a runtime panic, an error with a nil Packet, a product
Panic == [err |-> "panic", p |-> NoProduct]
Failed(e) == [err |-> e, p |-> NoProduct]

\* &Image{...} or &Table{...}; sum is the Sum field as binary.LittleEndian writes it
Product(kind, v, h, data, sum) ==
    [err |-> "nil", p |-> [kind |-> kind, VMUHeader |-> v, H |-> h, Data |-> data, Sum |-> sum]]

\* the body of a decoder after decodeVMU, for a header of type `type` and length n:
\* bs[ix:ix+n] panics when bs is shorter than ix+n (the payload slice has no spare
\* capacity), make([]byte, len(bs)-ix-4) panics when that length is negative
decodeBodyOf(kind, type, n, bs, v, sum) ==
    IF Len(bs) < VMUHeaderLength + n \/ Len(bs) - (VMUHeaderLength + n) - 4 < 0 THEN Panic
    ELSE Product(kind, v,
                 decodeHeaderOf(type, SubSeq(bs, VMUHeaderLength + 1, VMUHeaderLength + n)),
                 SubSeq(bs, VMUHeaderLength + n + 1, Len(bs) - 4), sum)

\* decodeVMUv1: no length check, and the Sum field of the product is left at zero
decodeVMUv1(bs) ==
    IF Len(bs) < VMUHeaderLength THEN Panic
    ELSE LET v == decodeVMU(SubSeq(bs, 1, VMUHeaderLength)) IN
         IF v.Channel[1] \in {Video1, Video2}
         THEN decodeBodyOf("Image", "IDHv1", IDHeaderLengthV1, bs, v, Zeros(4))
         ELSE IF v.Channel[1] = Science
         THEN decodeBodyOf("Table", "SDHv1", SDHeaderLengthV1, bs, v, Zeros(4))
         ELSE Failed("unknown channel")

decodeVMUv2(bs) ==
    IF Len(bs) <= VMUHeaderLength + IDHeaderLengthV2 \/ Len(bs) <= VMUHeaderLength + SDHeaderLengthV2
    THEN Failed("packet size to short")
    ELSE LET v == decodeVMU(SubSeq(bs, 1, VMUHeaderLength)) IN
         IF v.Channel[1] \in {Video1, Video2}
         THEN decodeBodyOf("Image", "IDHv2", IDHeaderLengthV2, bs, v, SubSeq(bs, Len(bs) - 3, Len(bs)))
         ELSE IF v.Channel[1] = Science
         THEN decodeBodyOf("Table", "SDHv2", SDHeaderLengthV2, bs, v, SubSeq(bs, Len(bs) - 3, Len(bs)))
         ELSE Failed("unknown channel")

\* DecodeHR(v) applied to bs
DecodeHR(v, bs) ==
    IF v = VMUProtocol1 THEN decodeVMUv1(bs)
    ELSE IF v = VMUProtocol2 THEN decodeVMUv2(bs)
    ELSE Failed("unsupported vmu protocol version")

\* (*Table).Bytes and (*Image).Bytes
Bytes(p) == encodeVMU(p.VMUHeader) \o encodeHeaderOf(p.H) \o p.Data \o p.Sum

\* a uint32 as <<high 16 bits, low 16 bits>>; the sum of two uint32 wraps modulo
\* 2^32
AddU32(x, y) ==
    <<(x[1] + y[1] + ((x[2] + y[2]) \div 65536)) % 65536, (x[2] + y[2]) % 65536>>

\* var cmp uint32; for i := range bs[a-1:b] { cmp += uint32(bs[i]) }: the additions
\* are grouped by halves of the range, which gives the sum of the loop since the
\* addition modulo 2^32 is associative
RECURSIVE SumLoop(_, _, _)
SumLoop(bs, a, b) ==
    IF a > b THEN <<0, 0>>
    ELSE IF a = b THEN <<0, bs[a]>>
    ELSE AddU32(SumLoop(bs, a, (a + b) \div 2), SumLoop(bs, (a + b) \div 2 + 1, b))

\* the bytes binary.LittleEndian gives a uint32
LE32(u) == <<u[2] % 256, u[2] \div 256, u[1] % 256, u[1] \div 256>>

\* (a Valid that sums every byte of Bytes, the stored checksum included)
ValidWholeBytes(p) == LE32(SumLoop(Bytes(p), 1, Len(Bytes(p)))) = p.Sum

\* Valid, for a Table or an Image whose Bytes succeeds
Valid(p) == LE32(SumLoop(Bytes(p), 1, Len(Bytes(p)) - 4)) = p.Sum

\* IDHv1.Format and IDHv2.Format
FormatIDHv1(t) ==
    IF t = 1 THEN "jpg" ELSE IF t = 2 THEN "gray" ELSE IF t = 3 THEN "ycbcr"
    ELSE IF t = 4 THEN "rgb" ELSE IF t = 5 THEN "tiff" ELSE "raw"

FormatIDHv2(t) ==
    IF t = 1 THEN "gray" ELSE IF t = 2 THEN "gray16be" ELSE IF t = 3 THEN "gray16le"
    ELSE IF t = 4 THEN "yuy2" ELSE IF t = 5 THEN "i420" ELSE IF t = 6 THEN "rgb"
    ELSE IF t = 7 THEN "jpg" ELSE IF t = 8 THEN "png" ELSE IF t = 9 THEN "h264"
    ELSE "raw"

\* the extension before the validity mark
Extension(p) ==
    IF p.kind = "Table" THEN "dat"
    ELSE IF p.H.type = "IDHv1" THEN FormatIDHv1(p.H.f.Type[1])
    ELSE FormatIDHv2(p.H.f.Type[1])

\* (*Table).Filename and (*Image).Filename: the id, the sequence and the extension of
\* the name (the name ends with the extension; its UPI, time and offset parts are
\* left out). ext is the extension as its dot-separated parts.
ProductFilename(p) ==
    [id  |-> IF p.H.type \in {"SDHv1", "IDHv1"} THEN p.VMUHeader.Channel[1] ELSE p.H.f.Id[1],
     seq |-> IF p.H.type \in {"SDHv1", "IDHv1"} THEN p.H.f.Sequence ELSE p.H.f.Originator,
     ext |-> IF ~Valid(p) THEN <<Extension(p), "bad">> ELSE <<Extension(p)>>]

\* -- the payloads handed to the decoders --

\* the sum of the bytes of bs as an integer
RECURSIVE SumRange(_, _, _)
SumRange(bs, a, b) ==
    IF a > b THEN 0
    ELSE IF a = b THEN bs[a]
    ELSE SumRange(bs, a, (a + b) \div 2) + SumRange(bs, (a + b) \div 2 + 1, b)

PlainSum(bs) == SumRange(bs, 1, Len(bs))

\* the four little-endian bytes of n, 0 <= n < 2^31
ToLE32(n) == <<n % 256, (n \div 256) % 256, (n \div 65536) % 256, (n \div 16777216) % 256>>

\* the bytes of a header of layout l: fill in every byte of a kept field, pad in the
\* others
RawHeader(l, fill, pad) ==
    Flatten([k \in DOMAIN l |-> [i \in 1..l[k][2] |-> IF l[k][3] THEN fill ELSE pad]])

\* the layout of the header that follows the VMU header, by version and channel
LayoutFor(ver, channel) ==
    IF ver = VMUProtocol1
    THEN (IF channel \in {Video1, Video2} THEN IDHv1Layout ELSE SDHv1Layout)
    ELSE (IF channel \in {Video1, Video2} THEN IDHv2Layout ELSE SDHv2Layout)

PayloadBody(ver, channel, fill, pad, n) ==
    <<channel>> \o Tail(RawHeader(VMULayout, fill, pad))
        \o RawHeader(LayoutFor(ver, channel), fill, pad) \o [i \in 1..n |-> fill]

\* a payload: its body, then the running byte sum of the body plus delta
MakePayload(ver, channel, fill, pad, n, delta) ==
    PayloadBody(ver, channel, fill, pad, n)
        \o ToLE32(PlainSum(PayloadBody(ver, channel, fill, pad, n)) + delta)

\* the payload lengths around the two header lengths of decodeVMUv2
GateLengths ==
    {VMUHeaderLength + SDHeaderLengthV2, VMUHeaderLength + SDHeaderLengthV2 + 1,
     VMUHeaderLength + IDHeaderLengthV2 - 1, VMUHeaderLength + IDHeaderLengthV2,
     VMUHeaderLength + IDHeaderLengthV2 + 1, VMUHeaderLength + IDHeaderLengthV2 + 4}

\* a payload of n bytes on the given channel
PayloadOfLength(channel, n) == [i \in 1..n |-> IF i = 1 THEN channel ELSE 1]

VmuInputs ==
    {[ver |-> ver, bs |-> MakePayload(ver, ch, fill, pad, n, delta)] :
        ver \in {VMUProtocol1, VMUProtocol2}, ch \in {Video1, Science, 7},
        fill \in {1, 200}, pad \in {0, 5}, n \in {0, MaxData}, delta \in {0, 1}}
    \cup {[ver |-> ver, bs |-> <<Science, 1>>] : ver \in {VMUProtocol1, VMUProtocol2}}
    \cup {[ver |-> VMUProtocol2, bs |-> PayloadOfLength(ch, n)] :
            ch \in {Video1, Science}, n \in GateLengths}

NoDecode == [err |-> "none", p |-> NoProduct]

\* d.Decode(bs) for the decoder of the declared version
VmuDecode ==
    /\ vpc = "decode"
    /\ vres' = DecodeHR(vver, vbs)
    /\ vpc' = IF vres'.err = "nil" THEN "valid" ELSE "done"
    /\ UNCHANGED <<vver, vbs, vvalid, vname>>
    /\ UNCHANGED notVmu

\* Valid(p) and p.Filename() on the product of the decoder
VmuValid ==
    /\ vpc = "valid"
    /\ vvalid' = Valid(vres.p)
    /\ vname' = ProductFilename(vres.p)
    /\ vpc' = "done"
    /\ UNCHANGED <<vver, vbs, vres>>
    /\ UNCHANGED notVmu

----------------------------------------------------------------------------
(* The listen command: ListenPackets, Convert and runListen *)

MaxPackets == 2    \* frames written on the connections of one run, all together
ListenCap == 2     \* capacity of the channel q of ListenPackets (100 in the code)
QueueLen == 1      \* capacity of the channel queue of runListen (100 in the code)

Conns == {1, 2}

\* frames of protocol 0 whose version nibble is the VMU version of their payload:
\* a v2 image with the right checksum, the same with a wrong checksum, and the
\* first one under the version 5
LV2    == Frame(Preamble, 0, 2, 255, 0, 0, 1, MakePayload(VMUProtocol2, Video1, 1, 0, 0, 0), 0, 0)
LV2bad == Frame(Preamble, 0, 2, 255, 0, 0, 2, MakePayload(VMUProtocol2, Video1, 1, 0, 0, 1), 0, 0)
LV5    == Frame(Preamble, 0, 5, 255, 0, 0, 3, MakePayload(VMUProtocol2, Video1, 1, 0, 0, 0), 0, 0)

ListenMenu == {LV2, LV2bad, LV5}

\* the instances handed to ListenPackets (c.Instances): none configured
Instances == <<>>

\* &hadock.Item{int32(p.Instance), hr}; tag names the packet it was made from: its
\* connection and its rank among the packets the reader of the connection emitted
ListenItem(tag, instance, hr) == [tag |-> tag, Instance |-> instance, HRPacket |-> hr]

NoItem == ListenItem(<<0, 0>>, 0, NoProduct)

NoPacket == [tag |-> <<0, 0>>, p |-> NewPacket]

Alive == ~crashed /\ mpc # "returned"

\* (a channel that hands over the value sent last first)
ChanSendFront(q, x) == <<x>> \o q

\* q <- x on a buffered channel with room
ChanSend(q, x) == Append(q, x)

\* s.Accept() returns a connection: its goroutine and its reader start
Accept(c) ==
    /\ Alive /\ ~lclosed /\ conns[c].rpc = "wait"
    /\ conns' = [conns EXCEPT ![c].rpc = "decode"]
    /\ UNCHANGED <<lclosed, lq, cvpc, cvitem, cqclosed, mpc, mitem, mqueue, crashed,
                   lstored, lnotified, processed>>
    /\ UNCHANGED notListen

\* s.Accept() fails: the accepting goroutine returns; its deferred function closes the
\* listener and the channel q
AcceptFails ==
    /\ Alive /\ ~lclosed
    /\ lclosed' = TRUE
    /\ UNCHANGED <<conns, lq, cvpc, cvitem, cqclosed, mpc, mitem, mqueue, crashed,
                   lstored, lnotified, processed>>
    /\ UNCHANGED notListen

\* the reader of connection c (DecodeBinaryPackets): one iteration of its loop up to
\* the send
ConnDecode(c) ==
    /\ Alive /\ conns[c].rpc = "decode"
    /\ \E res \in DecodePacket(Wire(conns[c].src), conns[c].pos) :
         LET to == Switch(res.err, NotAllowed(Instances, res.p)) IN
         conns' = [conns EXCEPT
                     ![c].pos = res.pos,
                     ![c].rpc = IF to = "send" THEN "send"
                                ELSE IF to = "return" THEN "done" ELSE "decode",
                     ![c].vers = IF to = "send" THEN Append(@, res.p.Version) ELSE @,
                     ![c].pkt = IF to = "send"
                                THEN [tag |-> <<c, Len(conns[c].vers) + 1>>, p |-> res.p]
                                ELSE @]
    /\ UNCHANGED <<lclosed, lq, cvpc, cvitem, cqclosed, mpc, mitem, mqueue, crashed,
                   lstored, lnotified, processed>>
    /\ UNCHANGED notListen

\* for p := range decode(r, is) { q <- p }: the goroutine of the connection takes the
\* packet from the reader and sends it on q; a send on the closed q panics
ConnForward(c) ==
    /\ Alive /\ conns[c].rpc = "send"
    /\ IF lclosed
       THEN crashed' = TRUE /\ UNCHANGED <<conns, lq>>
       ELSE /\ Len(lq) < ListenCap
            /\ lq' = ChanSend(lq, conns[c].pkt)
            /\ conns' = [conns EXCEPT ![c].rpc = "decode"]
            /\ UNCHANGED crashed
    /\ UNCHANGED <<lclosed, cvpc, cvitem, cqclosed, mpc, mitem, mqueue,
                   lstored, lnotified, processed>>
    /\ UNCHANGED notListen

\* (a type switch that lets through the products whose checksum matches only)
IsValidProduct(hr) == hr.kind \in {"Table", "Image"} /\ Valid(hr)

\* switch hr.(type) { case *panda.Table, *panda.Image: ...; default: continue }
IsProduct(hr) == hr.kind \in {"Table", "Image"}

\* d, ok := ds[int(p.Version)]: ds holds the decoders of VMUProtocol1 and VMUProtocol2
KnownVersion(v) == v \in {VMUProtocol1, VMUProtocol2}

\* Convert: one iteration of for p := range ps, up to the send of the item
ConvertRecv ==
    /\ Alive /\ cvpc = "recv" /\ lq # <<>>
    /\ lq' = Tail(lq)
    /\ LET x == Head(lq)
           res == DecodeHR(x.p.Version, x.p.Payload) IN
       IF ~KnownVersion(x.p.Version)
       THEN UNCHANGED <<cvpc, cvitem, crashed>>                     \* continue
       ELSE IF res.err = "panic"
       THEN crashed' = TRUE /\ UNCHANGED <<cvpc, cvitem>>
       ELSE IF res.err = "nil" /\ IsProduct(res.p)
       THEN /\ cvitem' = ListenItem(x.tag, x.p.Instance, res.p)
            /\ cvpc' = "send"
            /\ UNCHANGED crashed
       ELSE UNCHANGED <<cvpc, cvitem, crashed>>                     \* default: continue
    /\ UNCHANGED <<conns, lclosed, cqclosed, mpc, mitem, mqueue,
                   lstored, lnotified, processed>>
    /\ UNCHANGED notListen

\* Convert: ps is closed and empty, the range loop ends and the deferred close(q) runs
ConvertClose ==
    /\ Alive /\ cvpc = "recv" /\ lq = <<>> /\ lclosed
    /\ cvpc' = "done" /\ cqclosed' = TRUE
    /\ UNCHANGED <<conns, lclosed, lq, cvitem, mpc, mitem, mqueue, crashed,
                   lstored, lnotified, processed>>
    /\ UNCHANGED notListen

\* for i := range Convert(ps): runListen receives the item Convert is sending
MainRecv ==
    /\ Alive /\ mpc = "recv" /\ cvpc = "send"
    /\ mitem' = cvitem /\ mpc' = "store" /\ cvpc' = "recv"
    /\ UNCHANGED <<conns, lclosed, lq, cvitem, cqclosed, mqueue, crashed,
                   lstored, lnotified, processed>>
    /\ UNCHANGED notListen

\* fs.Store(...), then pool.Notify(i) if age == 0 || time.Since(i.Timestamp()) <= age;
\* within is the value of that test
MainStore ==
    /\ Alive /\ mpc = "store"
    /\ \E within \in BOOLEAN :
         /\ lstored' = Append(lstored, [item |-> mitem, within |-> within])
         /\ lnotified' = IF within THEN Append(lnotified, mitem.tag) ELSE lnotified
    /\ mpc' = "enqueue"
    /\ UNCHANGED <<conns, lclosed, lq, cvpc, cvitem, cqclosed, mitem, mqueue, crashed,
                   processed>>
    /\ UNCHANGED notListen

\* queue <- i
MainEnqueue ==
    /\ Alive /\ mpc = "enqueue" /\ Len(mqueue) < QueueLen
    /\ mqueue' = ChanSend(mqueue, mitem)
    /\ mpc' = "recv"
    /\ UNCHANGED <<conns, lclosed, lq, cvpc, cvitem, cqclosed, mitem, crashed,
                   lstored, lnotified, processed>>
    /\ UNCHANGED notListen

\* Convert's channel is closed: the loop of runListen ends and runListen returns nil
\* (the deferred close(queue) runs; nothing waits for the goroutine that ranges over
\* queue); the command is over and the process exits
MainReturn ==
    /\ Alive /\ mpc = "recv" /\ cqclosed
    /\ mpc' = "returned"
    /\ UNCHANGED <<conns, lclosed, lq, cvpc, cvitem, cqclosed, mitem, mqueue, crashed,
                   lstored, lnotified, processed>>
    /\ UNCHANGED notListen

\* the goroutine of runListen that ranges over queue: ms.Process(i.Instance, i.HRPacket)
ModProcess ==
    /\ Alive /\ mqueue # <<>>
    /\ processed' = Append(processed, Head(mqueue).tag)
    /\ mqueue' = Tail(mqueue)
    /\ UNCHANGED <<conns, lclosed, lq, cvpc, cvitem, cqclosed, mpc, mitem, crashed,
                   lstored, lnotified>>
    /\ UNCHANGED notListen

----------------------------------------------------------------------------
(* proxy: DialProxy and the Write method of proxy *)

MaxWrites == 2     \* Write calls on one proxy

\* the e argument of DialProxy
Levels == {"", "no", "speed", "best", "default"}

\* the switch of DialProxy: whether e names a level, and p.level (the zero value of
\* p.level is gzip.NoCompression)
Compresses(e) == e \in {"no", "speed", "best", "default"}

LevelOf(e) ==
    IF e = "speed" THEN "BestSpeed"
    ELSE IF e = "best" THEN "BestCompression"
    ELSE IF e = "default" THEN "DefaultCompression"
    ELSE "NoCompression"

\* a net.Conn used as the writer, and gzip.NewWriterLevel(c, level)
ConnWriter(sock) == [kind |-> "conn", sock |-> sock, level |-> "none", err |-> "nil"]
GzipWriter(sock, level) == [kind |-> "gzip", sock |-> sock, level |-> level, err |-> "nil"]

\* _, ok := w.(flusher): *gzip.Writer has a Flush method, a net.Conn has none
IsFlusher(w) == w.kind = "gzip"

\* the outcomes of a write on the socket: success, a net.Error that is Temporary,
\* a net.Error that is not, an error that is not a net.Error
WriteOutcomes == {"nil", "temporary", "permanent", "other"}

\* the lengths of the slices handed to Write
WriteLengths == {0, 2}

\* p.writer.Write(bs): a net.Conn answers with the outcome of the write on the socket;
\* a gzip writer answers with the error it holds on to if it has one, else it may
\* write through to the socket (through = TRUE) and then holds on to that outcome
WriterWrite(w, through, o) ==
    IF w.kind = "conn" THEN [w |-> w, err |-> o]
    ELSE IF w.err # "nil" THEN [w |-> w, err |-> w.err]
    ELSE IF through THEN [w |-> [w EXCEPT !.err = o], err |-> o]
    ELSE [w |-> w, err |-> "nil"]

\* f.Flush() on a gzip writer: the pending bytes are written to the socket with
\* outcome o
WriterFlush(w, o) ==
    IF w.err # "nil" THEN [w |-> w, err |-> w.err]
    ELSE [w |-> [w EXCEPT !.err = o], err |-> o]

\* (a Write that hands the error of the writer back to its caller)
WriteReturnsError(n, err) == <<n, err>>

\* return len(bs), nil
WriteReturn(n, err) == <<n, "nil">>

\* the writer after a successful redial: p.Conn, p.writer = c, c; the test that
\* follows is made on the new p.writer
Rewrap(sock, level) ==
    IF IsFlusher(ConnWriter(sock)) THEN GzipWriter(sock, level) ELSE ConnWriter(sock)

\* one call of p.Write(bs) with len(bs) = n
ProxyWrite ==
    /\ psock > 0 /\ Len(plog) < MaxWrites
    /\ \E n \in WriteLengths, through \in BOOLEAN, o \in WriteOutcomes,
          fo \in WriteOutcomes, dial \in BOOLEAN :
         LET wr == WriterWrite(pwriter, through, o)
             fl == IF wr.err = "nil" /\ IsFlusher(wr.w) THEN WriterFlush(wr.w, fo)
                   ELSE [w |-> wr.w, err |-> "nil"]
             redial == wr.err = "permanent" /\ dial
             entry == [n |-> n, ret |-> WriteReturn(n, wr.err), via |-> pwriter,
                       err |-> wr.err, flush |-> fl.err, redialed |-> redial]
         IN /\ (wr.err = "nil" /\ IsFlusher(wr.w)) \/ fo = "nil"
            /\ (pwriter.kind = "gzip" /\ pwriter.err = "nil") \/ ~through
            /\ (wr.err = "permanent") \/ ~dial
            /\ (pwriter.kind = "gzip" /\ pwriter.err # "nil") => o = "nil"
            /\ (pwriter.kind = "gzip" /\ ~through) => o = "nil"
            /\ plog' = Append(plog, entry)
            /\ IF redial
               THEN psock' = psock + 1 /\ pwriter' = Rewrap(psock + 1, plevel)
               ELSE psock' = psock /\ pwriter' = fl.w
    /\ UNCHANGED <<pz, plevel>>
    /\ UNCHANGED notProxy

----------------------------------------------------------------------------
(* distrib: Limit and limiter.Allow, for the requests of one remote address that all
   arrive before a token is refilled *)

RateLimit == 1     \* the n of Limit(h, n): tokens per second
Burst == 10        \* rate.NewLimiter(l.limit, 10)
MaxVisitors == 2   \* handlers that find no visitor in the map, in one run

Requests == RateLimit + Burst

\* l.mu.RLock(); v, ok := l.visitors[r.RemoteAddr]; l.mu.RUnlock(); a handler that
\* finds no visitor makes a new one
Lookup ==
    /\ lreq > 0
    /\ lmap # 0 \/ Len(ltokens) + lmissed < MaxVisitors
    /\ lreq' = lreq - 1
    /\ IF lmap # 0
       THEN lheld' = [lheld EXCEPT ![lmap] = @ + 1] /\ UNCHANGED lmissed
       ELSE lmissed' = lmissed + 1 /\ UNCHANGED lheld
    /\ UNCHANGED <<lmap, ltokens, ladmitted, ldenied>>
    /\ UNCHANGED notLim

\* l.mu.Lock(); l.visitors[r.RemoteAddr] = v; l.mu.Unlock() with the new visitor,
\* whose limiter starts with a full burst
Insert ==
    /\ lmissed > 0
    /\ lmissed' = lmissed - 1
    /\ ltokens' = Append(ltokens, Burst)
    /\ lheld' = Append(lheld, 1)
    /\ lmap' = Len(ltokens) + 1
    /\ UNCHANGED <<lreq, ladmitted, ldenied>>
    /\ UNCHANGED notLim

\* v.rate.Allow() when no token has been refilled
Takes(tokens) == tokens > 0

\* return v.Allow(), then h.ServeHTTP or StatusTooManyRequests
VisitorAllow ==
    /\ \E v \in DOMAIN lheld :
         /\ lheld[v] > 0
         /\ lheld' = [lheld EXCEPT ![v] = @ - 1]
         /\ IF Takes(ltokens[v])
            THEN /\ ltokens' = [ltokens EXCEPT ![v] = @ - 1]
                 /\ ladmitted' = ladmitted + 1 /\ UNCHANGED ldenied
            ELSE /\ ldenied' = ldenied + 1 /\ UNCHANGED <<ltokens, ladmitted>>
    /\ UNCHANGED <<lreq, lmissed, lmap>>
    /\ UNCHANGED notLim

----------------------------------------------------------------------------
(* hadock storage: joinPath, filestore.Store and NewHTTPStorage *)

MaxFileStores == 2     \* calls of filestore.Store

\* a product as joinPath and filestore.Store see it: its type, VMUHeader.Timestamp()
\* and Timestamp() in unix seconds, IsRealtime(), Origin(), Filename() and what
\* f.encode writes for it
HRPacket(kind, vmu, sub, realtime, origin, name, bytes) ==
    [kind |-> kind, vmu |-> vmu, sub |-> sub, realtime |-> realtime, origin |-> origin,
     name |-> name, bytes |-> bytes]

\* two images with the same headers and different data, whose sub-header time is an
\* hour and six minutes after the time of the VMU header (minute 7), and a playback
\* table whose two times are the same
StoreMenu ==
    {HRPacket("Image", 420, 4380, TRUE, "33", "img_a", "data1"),
     HRPacket("Image", 420, 4380, TRUE, "33", "img_a", "data2"),
     HRPacket("Table", 1800, 1800, FALSE, "01", "sci_b", "data3")}

\* the granularities of the stores
Granularities == {0, 1, 5}

\* (a choice of t that takes the VMU header's time when a is set)
pathTimeSwapped(v, a) == IF a THEN v.vmu ELSE v.sub

\* the t of joinPath: v.VMUHeader.Timestamp(), replaced by v.Timestamp() if
\* t.IsZero() || a; the timestamp of a VMU header is a time.Unix value and never the
\* zero time
pathTime(v, a) == IF a THEN v.sub ELSE v.vmu

\* joinPath(base, v, i, g, a)
joinPath(base, v, i, g, a) ==
    LET b1 == Append(base, InstanceDir(i))
        b2 == Append(b1, IF v.kind = "Table" THEN "sciences" ELSE "images")
        b3 == b2 \o <<IF v.realtime THEN "realtime" ELSE "playback", v.origin>>
    IN joinPathTime(b3, pathTime(v, a), g)

EmptyFS == [names |-> [x \in {} |-> 0], data |-> <<>>]

Exists(fs, path) == path \in DOMAIN fs.names

ContentOf(fs, path) == fs.data[fs.names[path]]

\* ioutil.WriteFile(path, bs, 0644): an existing file is truncated and rewritten in
\* place, a missing one is created
WriteFileAt(fs, path, bs) ==
    IF Exists(fs, path)
    THEN [fs EXCEPT !.data[fs.names[path]] = bs]
    ELSE [names |-> [x \in DOMAIN fs.names \cup {path} |->
                       IF x = path THEN Len(fs.data) + 1 ELSE fs.names[x]],
          data |-> Append(fs.data, bs)]

\* os.Link(old, new) when new does not exist
LinkAt(fs, old, new) ==
    [fs EXCEPT !.names = [x \in DOMAIN fs.names \cup {new} |->
                            IF x = new THEN fs.names[old] ELSE fs.names[x]]]

\* ioutil.WriteFile(path.Join(dir, n), bs) followed, when harddir is a directory, by
\* os.MkdirAll(hard) and os.Link(path.Join(dir, n), path.Join(hard, n))
WriteAndLink(fs, dir, hard, n, bs, linked) ==
    LET fs1 == WriteFileAt(fs, Append(dir, n), bs) IN
    IF ~linked THEN [fs |-> fs1, err |-> "nil"]
    ELSE IF Exists(fs1, Append(hard, n)) THEN [fs |-> fs1, err |-> "link: file exists"]
    ELSE [fs |-> LinkAt(fs1, Append(dir, n), Append(hard, n)), err |-> "nil"]

\* filestore.Store(i, p); io names the call that fails in this Store by itself, if
\* any: "encode" (f.encode), "mkdir" (os.MkdirAll of dir), "write" (the first
\* ioutil.WriteFile), or "ok"; wrote is the set of the paths this call wrote with
\* ioutil.WriteFile
FileStore ==
    /\ fgranul >= 0 /\ Len(fslog) < MaxFileStores
    /\ \E p \in StoreMenu, i \in {255}, io \in {"ok", "encode", "mkdir", "write"} :
         LET dir  == joinPath(<<"datadir">>, p, i, fgranul, FALSE)
             hard == joinPath(<<"harddir">>, p, i, fgranul, TRUE)
             one  == WriteAndLink(fsys, dir, hard, <<p.name>>, <<"encoded", p.bytes>>, fhard)
             two  == IF one.err = "nil" /\ p.kind = "Image"
                     THEN WriteAndLink(one.fs, dir, hard, <<p.name, "xml">>,
                                       <<"metadata", p.vmu>>, fhard)
                     ELSE one
             after == IF io = "ok" THEN two.fs ELSE fsys
             err  == IF io = "ok" THEN two.err ELSE io
             wrote == IF io # "ok" THEN {}
                      ELSE {Append(dir, <<p.name>>)} \cup
                           (IF one.err = "nil" /\ p.kind = "Image"
                            THEN {Append(dir, <<p.name, "xml">>)} ELSE {})
         IN /\ fsys' = after
            /\ fcreated' = [x \in DOMAIN after.names |->
                              IF x \in DOMAIN fcreated THEN fcreated[x]
                              ELSE ContentOf(after, x)]
            /\ fslog' = Append(fslog, [p |-> p, i |-> i, io |-> io, dir |-> dir,
                                       hard |-> hard, err |-> err, wrote |-> wrote])
    /\ UNCHANGED <<fgranul, fhard, hin, hres>>
    /\ UNCHANGED notStore

\* the locations given to NewHTTPStorage: their scheme, or a string url.Parse rejects
Locations ==
    {[scheme |-> sc, parses |-> TRUE] : sc \in {"http", "https", "ftp", ""}}
        \cup {[scheme |-> "", parses |-> FALSE]}

\* the test of NewHTTPStorage on u.Scheme
SchemeRejected(scheme) == scheme # "http" \/ scheme # "https"

\* NewHTTPStorage(d, g)
NewHTTPStorage ==
    /\ fgranul >= 0 /\ hres = "none"
    /\ \E d \in Locations :
         /\ hin' = d
         /\ hres' = IF ~d.parses THEN "error"
                    ELSE IF SchemeRejected(d.scheme) THEN "error"
                    ELSE "store"
    /\ UNCHANGED <<fgranul, fhard, fsys, fcreated, fslog>>
    /\ UNCHANGED notStore

----------------------------------------------------------------------------
(* hadock notifiers: Options.Accept, debugger.Notify and notifier.Notify *)

MaxNotifies == 1   \* calls of Notify

NilOptions == [nil |-> TRUE, Source |-> "", Instance |-> -1, Channels |-> <<>>]

Options(source, instance, channels) ==
    [nil |-> FALSE, Source |-> source, Instance |-> instance, Channels |-> channels]

OptionsMenu ==
    {NilOptions} \cup
    {Options(so, ins, ch) : so \in {"", "realtime", "playback", "replay"}, ins \in {-1, 0, 1},
                           ch \in {<<>>, <<Video1>>, <<Video1, Video2>>,
                                   <<Video1, Video2, Science>>}}

\* the fields of a Message that Accept looks at
Messages ==
    [Instance : {0, 1}, Channel : {Video1, Video2, Science}, Realtime : BOOLEAN]

\* (o *Options) Accept(msg): the error it returns
OptionsAccept(o, msg) ==
    LET n  == Len(o.Channels)
        ix == Search(n, [i \in 1..n |-> o.Channels[i] <= msg.Channel])
        ok == IF o.Source = "realtime" THEN msg.Realtime
              ELSE IF o.Source = "playback" THEN ~msg.Realtime
              ELSE o.Source = ""
    IN IF o.nil THEN "nil"
       ELSE IF o.Instance >= 0 /\ o.Instance # msg.Instance THEN "instance not accepted"
       ELSE IF n > 0 /\ (ix >= n \/ o.Channels[ix + 1] # msg.Channel)
       THEN "channel not accepted"
       ELSE IF ~ok THEN "source not accepted"
       ELSE "nil"

\* what a call of Notify leaves behind: whether the message was emitted, and the
\* error returned, which is nil on both paths
Notified(by, o, msg) ==
    [by |-> by, msg |-> msg, ret |-> "nil", emitted |-> OptionsAccept(o, msg) = "nil"]

\* debugger.Notify(msg): the message is printed unless Accept returns an error
DebuggerNotify ==
    /\ nopts # <<>> /\ Len(nlog) < MaxNotifies
    /\ \E msg \in Messages : nlog' = Append(nlog, Notified("debugger", nopts, msg))
    /\ UNCHANGED nopts
    /\ UNCHANGED notNotify

\* notifier.Notify(m): the message is written to the connection unless Accept
\* returns an error
NotifierNotify ==
    /\ nopts # <<>> /\ Len(nlog) < MaxNotifies
    /\ \E msg \in Messages : nlog' = Append(nlog, Notified("notifier", nopts, msg))
    /\ UNCHANGED nopts
    /\ UNCHANGED notNotify

----------------------------------------------------------------------------
(* hadock/distrib/archive.go: purge, and limiter.Allow for requests that arrive one
   at a time from each address *)

MaxSweepTicks == 13    \* periods of the ticker of purge
MaxBuckets == 2        \* visitors made

TickSeconds == 10      \* time.NewTicker(time.Second * 10)
IdleSeconds == 120     \* t.Sub(v.when) >= time.Second*120

Addrs == {"a", "b"}

\* ten seconds pass
Elapse ==
    /\ sclock < MaxSweepTicks * TickSeconds
    /\ sclock' = sclock + TickSeconds
    /\ UNCHANGED <<sticked, swhen, smap, hpc, sheld, spc, sns, sdeleted>>
    /\ UNCHANGED notSweep

\* limiter.Allow up to the test of ok: the lookup under RLock, and on a miss the
\* making of the visitor
VisitLookup ==
    /\ \E a \in Addrs :
         /\ hpc[a] = "idle"
         /\ IF smap[a] # 0
            THEN /\ sheld' = [sheld EXCEPT ![a] = smap[a]]
                 /\ hpc' = [hpc EXCEPT ![a] = "allow"]
                 /\ UNCHANGED swhen
            ELSE /\ Len(swhen) < MaxBuckets
                 /\ swhen' = Append(swhen, sclock)
                 /\ sheld' = [sheld EXCEPT ![a] = Len(swhen) + 1]
                 /\ hpc' = [hpc EXCEPT ![a] = "insert"]
    /\ UNCHANGED <<sclock, sticked, smap, spc, sns, sdeleted>>
    /\ UNCHANGED notSweep

\* l.visitors[r.RemoteAddr] = v under Lock
VisitInsert ==
    /\ \E a \in Addrs :
         /\ hpc[a] = "insert"
         /\ smap' = [smap EXCEPT ![a] = sheld[a]]
         /\ hpc' = [hpc EXCEPT ![a] = "allow"]
    /\ UNCHANGED <<sclock, sticked, swhen, sheld, spc, sns, sdeleted>>
    /\ UNCHANGED notSweep

\* visitor.Allow: v.when = time.Now()
VisitAllow ==
    /\ \E a \in Addrs :
         /\ hpc[a] = "allow"
         /\ swhen' = [swhen EXCEPT ![sheld[a]] = sclock]
         /\ hpc' = [hpc EXCEPT ![a] = "idle"]
         /\ sheld' = [sheld EXCEPT ![a] = 0]
    /\ UNCHANGED <<sclock, sticked, smap, spc, sns, sdeleted>>
    /\ UNCHANGED notSweep

\* the names a scan at tick time t collects
Expired(t) == {a \in Addrs : smap[a] # 0 /\ t - swhen[smap[a]] >= IdleSeconds}

\* purge, one tick: the scan under RLock; with no name collected it waits for the
\* next tick
SweepScan ==
    /\ spc = "wait" /\ sticked < sclock
    /\ sticked' = sclock
    /\ sns' = Expired(sclock)
    /\ spc' = IF sns' = {} THEN "wait" ELSE "delete"
    /\ UNCHANGED <<sclock, swhen, smap, hpc, sheld, sdeleted>>
    /\ UNCHANGED notSweep

\* the entries of the map a delete of the names ns removes, each with the time its
\* visitor has been idle for
Removed(ns) ==
    {[addr |-> a, idle |-> sclock - swhen[smap[a]]] : a \in {x \in ns : smap[x] # 0}}

\* purge, the same tick: delete(l.visitors, n) for every collected name, under Lock
SweepDelete ==
    /\ spc = "delete"
    /\ smap' = [a \in Addrs |-> IF a \in sns THEN 0 ELSE smap[a]]
    /\ sdeleted' = sdeleted \cup Removed(sns)
    /\ sns' = {}
    /\ spc' = "wait"
    /\ UNCHANGED <<sclock, sticked, swhen, hpc, sheld>>
    /\ UNCHANGED notSweep

InitSweep ==
    /\ sclock = 0 /\ sticked = 0 /\ swhen = <<>> /\ smap = [a \in Addrs |-> 0]
    /\ hpc = [a \in Addrs |-> "idle"] /\ sheld = [a \in Addrs |-> 0]
    /\ spc = "wait" /\ sns = {} /\ sdeleted = {}

IdleSweep ==
    /\ sclock = 0 /\ sticked = 0 /\ swhen = <<>> /\ smap = <<>> /\ hpc = <<>> /\ sheld = <<>>
    /\ spc = "idle" /\ sns = {} /\ sdeleted = {}

----------------------------------------------------------------------------
(* cmd/internal/opts/cli.go: the worker pool. The channels enter, leave, start, stop
   and failures are unbuffered: a send completes only with a receive *)

MaxCalls == 2          \* calls each caller makes

Callers == {1, 2}
Names == {"w1", "w2"}

\* Start, Stop, Register (without and with auto-start) and Unregister
Ops == {"start", "stop", "enter", "enterAuto", "leave"}

NoCall == [op |-> "none", name |-> "none"]

\* a caller enters Start, Stop, Register or Unregister: it is at its send
Call ==
    /\ \E c \in Callers, op \in Ops, n \in Names :
         /\ wcall[c].pc = "idle" /\ wdone[c] < MaxCalls
         /\ wcall' = [wcall EXCEPT ![c] = [pc |-> "send", op |-> op, name |-> n]]
    /\ UNCHANGED <<wworkers, wrpc, wreq, wdone>>
    /\ UNCHANGED notWork

\* the select of Run receives what a caller sends: the caller goes on to check
RunReceive ==
    /\ wrpc = "select"
    /\ \E c \in Callers :
         /\ wcall[c].pc = "send"
         /\ wreq' = [op |-> wcall[c].op, name |-> wcall[c].name]
         /\ wcall' = [wcall EXCEPT ![c].pc = "check"]
    /\ wrpc' = "handle"
    /\ UNCHANGED <<wworkers, wdone>>
    /\ UNCHANGED notWork

\* where the case of the select that received the request leaves Run: back at the
\* select, or at a send on p.failures or on p.start
Handled(req, workers) ==
    IF req.op \in {"enter", "enterAuto"}
    THEN (IF req.name \in workers THEN "failures"
          ELSE IF req.op = "enterAuto" THEN "start" ELSE "select")
    ELSE IF req.name \notin workers THEN "failures" ELSE "select"

\* the body of the case
RunHandle ==
    /\ wrpc = "handle"
    /\ wrpc' = Handled(wreq, wworkers)
    /\ wworkers' = IF wreq.op \in {"enter", "enterAuto"} THEN wworkers \cup {wreq.name}
                   ELSE IF wreq.op = "leave" THEN wworkers \ {wreq.name}
                   ELSE wworkers
    /\ UNCHANGED <<wreq, wcall, wdone>>
    /\ UNCHANGED notWork

\* p.check(): the select with default receives from p.failures if Run is at its send
\* on it, which then completes, and returns nil otherwise
Check ==
    /\ \E c \in Callers :
         /\ wcall[c].pc = "check"
         /\ wcall' = [wcall EXCEPT ![c] = [pc |-> "idle", op |-> "none", name |-> "none"]]
         /\ wdone' = [wdone EXCEPT ![c] = @ + 1]
    /\ wrpc' = IF wrpc = "failures" THEN "select" ELSE wrpc
    /\ UNCHANGED <<wworkers, wreq>>
    /\ UNCHANGED notWork

\* NewPool-like start: one worker registered, Run(false) at its select
InitWork ==
    /\ wworkers = {"w1"} /\ wrpc = "select" /\ wreq = NoCall
    /\ wcall = [c \in Callers |-> [pc |-> "idle", op |-> "none", name |-> "none"]]
    /\ wdone = [c \in Callers |-> 0]

IdleWork ==
    /\ wworkers = {} /\ wrpc = "idle" /\ wreq = NoCall /\ wcall = <<>> /\ wdone = <<>>

----------------------------------------------------------------------------
(* cmd/hadock/replay.go: writePacket, preparePacketV2 *)

MaxReplayLen == 4      \* bytes of the payload handed to the replay writer

\* sum.Sum1071 (RFC 1071): the complement of the 16-bit sum of the bytes taken as
\* big-endian words, carries folded back; DecodePacket reads it and does not verify it
RECURSIVE Words(_)
Words(cs) ==
    IF cs = <<>> THEN 0
    ELSE IF Len(cs) = 1 THEN cs[1] * 256
    ELSE cs[1] * 256 + cs[2] + Words(SubSeq(cs, 3, Len(cs)))

RECURSIVE Fold(_)
Fold(x) == IF x < 65536 THEN x ELSE Fold((x % 65536) + (x \div 65536))

Sum1071(cs) == 65535 - Fold(Words(cs))

\* re.Next(r.size) at iteration i: the next r.size bytes, or what is left of them
Chunk(bs, size, i) ==
    SubSeq(bs, i * size + 1, IF (i + 1) * size < Len(bs) THEN (i + 1) * size ELSE Len(bs))

\* the iterations of the loop: it runs while bytes are left in the buffer
Iterations(bs, size) == (Len(bs) + size - 1) \div size

\* c := re.Len() / r.size, written in every fragment as its last field
Last(bs, size) == Len(bs) \div size

\* preparePacketV2: one frame per chunk, numbered from 0, all with the same last
preparePacketV2(bs, size, version, counter) ==
    [k \in 1..Iterations(bs, size) |->
        LET cs == Chunk(bs, size, k - 1) IN
        Frame(Preamble, version \div 4096, (version \div 256) % 16, version % 256,
              k - 1, Last(bs, size), counter, cs, Sum1071(cs), 0)]

\* r.version as Replay builds it for a fragmenting writer (size > 0)
ReplayVersion(t, m) == HadockVersion2 * 4096 + t * 256 + m

\* writePacket with r.size > 0
PrepareV2 ==
    /\ tpc = "prepare"
    /\ tframes' = preparePacketV2(tbs, tsize, ReplayVersion(0, 1), 7)
    /\ tpc' = "decode"
    /\ UNCHANGED <<tbs, tsize, tres>>
    /\ UNCHANGED notReplay

\* the peer decodes the bytes written on the connection, which is then closed
ReplayDecode ==
    /\ tpc = "decode"
    /\ tres' \in DecodePacket(Wire(tframes), 0)
    /\ tpc' = "done"
    /\ UNCHANGED <<tbs, tsize, tframes>>
    /\ UNCHANGED notReplay

InitReplay ==
    /\ tbs \in SeqsUpTo({65, 66}, MaxReplayLen) \ {<<>>}
    /\ tsize \in 1..Len(tbs)
    /\ tframes = <<>> /\ tres = NoResult /\ tpc = "prepare"

IdleReplay == tbs = <<>> /\ tsize = 0 /\ tframes = <<>> /\ tres = NoResult /\ tpc = "idle"

----------------------------------------------------------------------------
(* Specifications *)

InitReader ==
    /\ mode \in {"binary", "compressed"}
    /\ IF mode = "binary"
       THEN src \in SeqsUpTo(FrameMenu, MaxFrames) /\ gz = NoGz /\ is \in AllowLists
       ELSE src = <<>> /\ gz \in GzStreams /\ is = <<>>
    /\ rfinal = "EOF"
    /\ pos = 0 /\ rpc = "start" /\ pkt = NewPacket /\ vs = <<>>
    /\ qclosed = FALSE /\ out = <<>> /\ errs = <<>>

IdleReader ==
    /\ mode = "binary" /\ src = <<>> /\ gz = NoGz /\ is = <<>> /\ rfinal = "EOF"
    /\ pos = 0 /\ rpc = "idle" /\ pkt = NewPacket /\ vs = <<>>
    /\ qclosed = FALSE /\ out = <<>> /\ errs = <<>>

InitCodec == cpkt \in PacketInputs /\ cwire = NoWire /\ cres = NoResult /\ cpc = "encode"

IdleCodec == cpkt = NewPacket /\ cwire = NoWire /\ cres = NoResult /\ cpc = "idle"

\* the products handed to a pool with notifiers: one key each
DispatchMenu == {<<TRUE, "51", 0, 1, 10>>, <<TRUE, "51", 1, 1, 10>>}

InitDispatch ==
    /\ pmenu = DispatchMenu
    /\ notifiers \in NotifierLists
    /\ running = [n \in DOMAIN notifiers |-> 0]
    /\ ncalls = [n \in DOMAIN notifiers |-> [e \in {} |-> 0]]
    /\ queue = <<>> /\ cache = [k \in {} |-> <<>>] /\ tasks = {} /\ emitted = {}
    /\ nticks = 0 /\ handed = <<>> /\ arrived = <<>>

InitPool ==
    /\ pmenu = ItemMenu /\ notifiers = <<>> /\ running = <<>> /\ ncalls = <<>>
    /\ queue = <<>> /\ cache = [k \in {} |-> <<>>] /\ tasks = {} /\ emitted = {}
    /\ nticks = 0 /\ handed = <<>> /\ arrived = <<>>

InitHrdp == buf = <<>> /\ files = [x \in {} |-> <<>>] /\ writes = <<>> /\ stored = <<>>

InitFan ==
    /\ fkind \in {"store", "process"} /\ fouts \in SeqsUpTo(Outcomes, MaxSinks)
    /\ fidx = 0 /\ ferr = "nil" /\ fcalls = <<>> /\ fpc = "loop"

IdleFan ==
    /\ fkind = "store" /\ fouts = <<>> /\ fidx = 0 /\ ferr = "nil" /\ fcalls = <<>>
    /\ fpc = "idle"

InitVmu ==
    /\ \E x \in VmuInputs : vver = x.ver /\ vbs = x.bs
    /\ vres = NoDecode /\ vvalid = FALSE /\ vname = <<>> /\ vpc = "decode"

IdleVmu ==
    /\ vver = 0 /\ vbs = <<>> /\ vres = NoDecode /\ vvalid = FALSE /\ vname = <<>>
    /\ vpc = "idle"

NewConn(fs) ==
    [src |-> fs, pos |-> 0, rpc |-> "wait", pkt |-> NoPacket, vers |-> <<>>]

InitListen ==
    /\ \E f \in [Conns -> SeqsUpTo(ListenMenu, MaxPackets)] :
         /\ Len(f[1]) + Len(f[2]) <= MaxPackets
         /\ Len(f[1]) >= Len(f[2])     \* the connections are interchangeable
         /\ conns = [c \in Conns |-> NewConn(f[c])]
    /\ lclosed = FALSE /\ lq = <<>> /\ cvpc = "recv" /\ cvitem = NoItem
    /\ cqclosed = FALSE /\ mpc = "recv" /\ mitem = NoItem /\ mqueue = <<>>
    /\ crashed = FALSE
    /\ lstored = <<>> /\ lnotified = <<>>
    /\ processed = <<>>

IdleListen ==
    /\ conns = [c \in Conns |-> NewConn(<<>>)]
    /\ lclosed = FALSE /\ lq = <<>> /\ cvpc = "idle" /\ cvitem = NoItem
    /\ cqclosed = FALSE /\ mpc = "idle" /\ mitem = NoItem /\ mqueue = <<>>
    /\ crashed = FALSE
    /\ lstored = <<>> /\ lnotified = <<>>
    /\ processed = <<>>

\* DialProxy(a, e) returned a proxy
InitProxy ==
    \E e \in Levels :
        /\ pz = Compresses(e) /\ plevel = LevelOf(e) /\ psock = 1
        /\ pwriter = IF Compresses(e) THEN GzipWriter(1, LevelOf(e)) ELSE ConnWriter(1)
        /\ plog = <<>>

IdleProxy ==
    /\ pz = FALSE /\ plevel = "NoCompression" /\ psock = 0
    /\ pwriter = ConnWriter(0) /\ plog = <<>>

\* Limit(h, n) returned its handler and Requests requests are on their way
InitLim ==
    /\ lreq = Requests /\ lmissed = 0 /\ lheld = <<>> /\ lmap = 0 /\ ltokens = <<>>
    /\ ladmitted = 0 /\ ldenied = 0

IdleLim ==
    /\ lreq = 0 /\ lmissed = 0 /\ lheld = <<>> /\ lmap = 0 /\ ltokens = <<>>
    /\ ladmitted = 0 /\ ldenied = 0

NoLocation == [scheme |-> "", parses |-> FALSE]

\* NewLocalStorage(d, h, g, r) returned a filestore on an empty data directory
InitStore ==
    /\ fgranul \in Granularities /\ fhard \in BOOLEAN
    /\ fsys = EmptyFS /\ fcreated = [x \in {} |-> <<>>] /\ fslog = <<>>
    /\ hin = NoLocation /\ hres = "none"

IdleStore ==
    /\ fgranul = -1 /\ fhard = FALSE
    /\ fsys = EmptyFS /\ fcreated = [x \in {} |-> <<>>] /\ fslog = <<>>
    /\ hin = NoLocation /\ hres = "none"

InitNotify == nopts \in OptionsMenu /\ nlog = <<>>

IdleNotify == nopts = <<>> /\ nlog = <<>>

IdleExtras == IdleReplay /\ IdleSweep /\ IdleWork

IdleServices == IdleProxy /\ IdleLim /\ IdleStore /\ IdleNotify /\ IdleExtras

IdleOthers == IdleFan /\ IdleVmu /\ IdleListen /\ IdleServices

ReaderInit == InitReader /\ IdleCodec /\ InitPool /\ InitHrdp /\ IdleOthers
ReaderNext == SortInstances \/ DecodeStep \/ Send \/ OpenGzip \/ GzStep
SpecReader == ReaderInit /\ [][ReaderNext]_vars

\* a connection that is reset, or closed, after the frames of its peer
MaxResetFrames == 2

InitBroken ==
    /\ mode = "binary" /\ src \in SeqsUpTo(FrameMenu, MaxResetFrames) /\ gz = NoGz
    /\ is \in AllowLists /\ rfinal \in {"EOF", "ECONNRESET"}
    /\ pos = 0 /\ rpc = "start" /\ pkt = NewPacket /\ vs = <<>>
    /\ qclosed = FALSE /\ out = <<>> /\ errs = <<>>

BrokenInit == InitBroken /\ IdleCodec /\ InitPool /\ InitHrdp /\ IdleOthers
BrokenNext == SortInstances \/ DecodeStep \/ Send
SpecBroken == BrokenInit /\ [][BrokenNext]_vars

CodecInit == IdleReader /\ InitCodec /\ InitPool /\ InitHrdp /\ IdleOthers
CodecNext == Encode \/ Decode
SpecCodec == CodecInit /\ [][CodecNext]_vars

PoolInit == IdleReader /\ IdleCodec /\ InitPool /\ InitHrdp /\ IdleOthers
DispatchInit == IdleReader /\ IdleCodec /\ InitDispatch /\ InitHrdp /\ IdleOthers
DispatchNext == Notify \/ Receive \/ Tick \/ RunTask \/ NotifierReturn
SpecDispatch == DispatchInit /\ [][DispatchNext]_vars

PoolNext == Notify \/ Receive \/ Tick \/ RunTask
SpecPool == PoolInit /\ [][PoolNext]_vars

HrdpInit == IdleReader /\ IdleCodec /\ InitPool /\ InitHrdp /\ IdleOthers
HrdpNext == Store
SpecHrdp == HrdpInit /\ [][HrdpNext]_vars

FanInit == IdleReader /\ IdleCodec /\ InitPool /\ InitHrdp /\ InitFan /\ IdleVmu /\ IdleListen /\ IdleServices
FanNext == StoreNext \/ StoreReturn \/ ProcessNext \/ ProcessReturn
SpecFan == FanInit /\ [][FanNext]_vars

VmuInit == IdleReader /\ IdleCodec /\ InitPool /\ InitHrdp /\ IdleFan /\ InitVmu /\ IdleListen /\ IdleServices
VmuNext == VmuDecode \/ VmuValid
SpecVmu == VmuInit /\ [][VmuNext]_vars

ListenInit == IdleReader /\ IdleCodec /\ InitPool /\ InitHrdp /\ IdleFan /\ IdleVmu /\ InitListen /\ IdleServices
ListenNext ==
    \/ AcceptFails \/ ConvertRecv \/ ConvertClose
    \/ MainRecv \/ MainStore \/ MainEnqueue \/ MainReturn \/ ModProcess
    \/ \E c \in Conns : Accept(c) \/ ConnDecode(c) \/ ConnForward(c)
SpecListen == ListenInit /\ [][ListenNext]_vars

ProxyInit ==
    /\ IdleReader /\ IdleCodec /\ InitPool /\ InitHrdp /\ IdleFan /\ IdleVmu /\ IdleListen
    /\ InitProxy /\ IdleLim /\ IdleStore /\ IdleNotify /\ IdleExtras
ProxyNext == ProxyWrite
SpecProxy == ProxyInit /\ [][ProxyNext]_vars

IdleCore ==
    /\ IdleReader /\ IdleCodec /\ InitPool /\ InitHrdp /\ IdleFan /\ IdleVmu /\ IdleListen

IdleFour == IdleProxy /\ IdleLim /\ IdleStore /\ IdleNotify

ReplayInit == IdleCore /\ IdleFour /\ InitReplay /\ IdleSweep /\ IdleWork
ReplayNext == PrepareV2 \/ ReplayDecode
SpecReplay == ReplayInit /\ [][ReplayNext]_vars

SweepInit == IdleCore /\ IdleFour /\ IdleReplay /\ InitSweep /\ IdleWork
SweepNext == Elapse \/ VisitLookup \/ VisitInsert \/ VisitAllow \/ SweepScan \/ SweepDelete
SpecSweep == SweepInit /\ [][SweepNext]_vars

WorkInit == IdleCore /\ IdleFour /\ IdleReplay /\ IdleSweep /\ InitWork
WorkNext == Call \/ RunReceive \/ RunHandle \/ Check
SpecWork == WorkInit /\ [][WorkNext]_vars

LimInit == IdleCore /\ IdleProxy /\ InitLim /\ IdleStore /\ IdleNotify /\ IdleExtras
LimNext == Lookup \/ Insert \/ VisitorAllow
SpecLim == LimInit /\ [][LimNext]_vars

StorageInit == IdleCore /\ IdleProxy /\ IdleLim /\ InitStore /\ IdleNotify /\ IdleExtras
StorageNext == FileStore \/ NewHTTPStorage
SpecStorage == StorageInit /\ [][StorageNext]_vars

NotifyInit == IdleCore /\ IdleProxy /\ IdleLim /\ IdleStore /\ InitNotify /\ IdleExtras
NotifyNext == DebuggerNotify \/ NotifierNotify
SpecNotify == NotifyInit /\ [][NotifyNext]_vars

----------------------------------------------------------------------------
(* Properties of the frame reader *)

\* C1: with a non-empty allow-list, DecodeBinaryPackets never emits a packet whose
\* instance is not in the list.
C1_OnlyAllowedEmitted ==
    (mode = "binary" /\ Len(is) > 0) =>
        \A i \in DOMAIN out : out[i].Instance \in Range(is)

Sent == Len(out) + (IF rpc = "send" THEN 1 ELSE 0)

NilResults == Cardinality({j \in DOMAIN errs : errs[j].err = "nil"})

\* the bytes consumed before the j-th DecodePacket call of the reader
StartOf(j) == IF j = 1 THEN 0 ELSE errs[j - 1].pos

\* the j-th call found four bytes other than the preamble where a frame should start
WrongPreambleAt(j) ==
    Len(r) - StartOf(j) >= 4 /\ SubSeq(r, StartOf(j) + 1, StartOf(j) + 4) # Preamble

Fragments == {Frag0, Frag1, Frag2}

\* the stream holds the three fragments of one packet, each once, in some order
FragmentsInSomeOrder == Len(src) = 3 /\ Range(src) = Fragments

WholePayload == <<65, 66, 67, 68, 69, 70>>

\* C3 as claimed: whatever the arrival order of the fragments, the reader emits a
\* single packet whose payload is the concatenation in Curr order.
C3_AnyOrder ==
    (mode = "binary" /\ FragmentsInSomeOrder /\ rpc = "done") =>
        (Len(out) = 1 /\ out[1].Payload = WholePayload)

\* C3 as amended: the same, provided the fragment with Curr = Last arrives last; the
\* other fragments may arrive in any order.
C3_FinalLast ==
    (mode = "binary" /\ FragmentsInSomeOrder /\ src[3] = Frag2 /\ rpc = "done") =>
        (Len(out) = 1 /\ out[1].Payload = WholePayload)

\* C3, witness: fragments 1, 0, 2 arrived in that order and were reassembled
C3_Witness ==
    /\ mode = "binary" /\ src = <<Frag1, Frag0, Frag2>> /\ rpc = "done"
    /\ Len(out) = 1 /\ out[1].Payload = WholePayload

\* C4: decoding the bytes of EncodePacket(p) yields the fields of p, for every p of
\* version 0.
C4_RoundTripV1 ==
    (cpc = "done" /\ cpkt.Version = 0) =>
        /\ cres.err = "nil"
        /\ \A f \in {"Protocol", "Version", "Instance", "Sequence", "Length", "Payload", "Sum"} :
             cres.p[f] = cpkt[f]

\* C5: once the reader goroutine has returned (the source reached EOF), the packet
\* channel is closed, for both variants.
C5_ClosedAtEOF == rpc = "done" => qclosed

\* the offset in r of the k-th frame of src
FrameStart(k) == Len(Wire(SubSeq(src, 1, k - 1)))

\* the j-th DecodePacket call of the reader started on a frame whose preamble is
\* right and whose prefix holds a protocol nibble other than 0 and 1
UnsupportedProtocolAt(j) ==
    /\ Len(r) - StartOf(j) >= 6
    /\ SubSeq(r, StartOf(j) + 1, StartOf(j) + 4) = Preamble
    /\ r[StartOf(j) + 5] \div 16 \notin {HadockVersion1, HadockVersion2}

\* C14: a frame whose protocol nibble is neither 0 nor 1 makes DecodePacket fail
\* with ErrUnsupportedProtocol after the 6 bytes of preamble and prefix; the reader
\* emits nothing for it, makes no further DecodePacket call and closes its channel.
C14_UnsupportedProtocol ==
    mode = "binary" =>
        \A j \in DOMAIN errs :
            UnsupportedProtocolAt(j) =>
                /\ errs[j].err = "ErrUnsupportedProtocol"
                /\ errs[j].pos = StartOf(j) + 6
                /\ j = Len(errs) /\ pos = errs[j].pos
                /\ rpc = "done" /\ qclosed
                /\ Len(out) = errs[j].nout

\* C14, witness: the reader stopped on a frame of protocol 2 after it had emitted a
\* packet, leaving frames of the connection unread
C14_Witness ==
    /\ mode = "binary" /\ errs # <<>> /\ UnsupportedProtocolAt(Len(errs))
    /\ Len(out) > 0 /\ pos < Len(r)

\* a whole fragment of protocol 1 with the right preamble that is not the final one
OpenFragment(f) ==
    f.pre = Preamble /\ f.proto = HadockVersion2 /\ f.keep = 0 /\ f.curr # f.last

\* the j-th DecodePacket call started on frame k, the frames k..m-1 are non-final
\* fragments of one prefix, and frame m starts with the preamble and another prefix
MismatchAt(j, k, m) ==
    /\ k < m /\ m <= Len(src) /\ StartOf(j) = FrameStart(k)
    /\ \A x \in k..(m - 1) : OpenFragment(src[x]) /\ Prefix(src[x]) = Prefix(src[k])
    /\ src[m].pre = Preamble /\ (src[m].keep = 0 \/ src[m].keep >= 6)
    /\ Prefix(src[m]) # Prefix(src[k])

\* C15: in a v2 reassembly, a fragment after the first that is preceded by a prefix
\* other than the first fragment's makes DecodePacket fail (version mismatched)
\* right after that prefix, with no packet: the reader emits nothing for this call,
\* the fragments read so far are dropped, and it goes on reading.
C15_PrefixMismatch ==
    mode = "binary" =>
        \A j \in DOMAIN errs : \A k, m \in DOMAIN src :
            MismatchAt(j, k, m) =>
                /\ errs[j].err = "version mismatched"
                /\ errs[j].pos = FrameStart(m) + 6
                /\ Sent = NilResults
                /\ j < Len(errs) => errs[j + 1].nout = errs[j].nout
                /\ j = Len(errs) => (rpc = "decode" /\ ~qclosed /\ Len(out) = errs[j].nout)

\* C15, witness: two fragments of one prefix were read, the third frame had another
\* prefix, and the reader has finished the connection without emitting a packet
C15_Witness ==
    /\ mode = "binary" /\ src = <<Frag0, Frag1, Frag1x>>
    /\ rpc = "done" /\ out = <<>>
    /\ \E j \in DOMAIN errs : errs[j].err = "version mismatched"

----------------------------------------------------------------------------
(* Properties of the notifier pool *)

Keys == {[Realtime |-> k[1], Origin |-> k[2], Instance |-> k[3]] : k \in ItemKeys}

\* the key an item has by its own fields
OwnKey(p) == [Realtime |-> p.Realtime, Origin |-> p.Origin, Instance |-> p.Instance]

MsgKey(m) == [Realtime |-> m.Realtime, Origin |-> m.Origin, Instance |-> m.Instance]

\* the items of key k that notify received after n - 1 ticks and before the n-th
BatchOf(n, k) ==
    {handed[j] : j \in {x \in DOMAIN arrived : arrived[x] = n - 1 /\ OwnKey(handed[x]) = k}}

MinOf(S) == CHOOSE x \in S : \A y \in S : x <= y
MaxOf(S) == CHOOSE x \in S : \A y \in S : x >= y

\* C6: the N >= 1 items of one key received between two consecutive ticks make
\* exactly one Message of that key at the next tick (one goroutine, then one
\* Message), with count N, the minimum sequence of the batch and the filename of an
\* item of that sequence; a key with no item since the previous tick makes none.
C6_Batching ==
    \A n \in 1..nticks : \A k \in Keys :
        LET B == BatchOf(n, k)
            T == {t \in tasks : t.tick = n /\ t.k = k}
            E == {e \in emitted : e.tick = n /\ MsgKey(e.msg) = k}
        IN IF B = {} THEN T = {} /\ E = {}
           ELSE /\ Cardinality(T) + Cardinality(E) = 1
                /\ \A e \in E :
                     /\ e.msg.Count = Cardinality(B)
                     /\ e.msg.Sequence = MinOf({p.Sequence : p \in B})
                     /\ \E p \in B : /\ p.Sequence = e.msg.Sequence
                                     /\ e.msg.Reference = Filename(p)

\* C6, witness: a Message counts two items of different sequences, the larger
\* sequence having arrived first
C6_Witness ==
    \E e \in emitted :
        /\ e.msg.Count = 2
        /\ e.ps[1].Sequence > e.ps[2].Sequence
        /\ e.msg.Sequence = e.ps[2].Sequence

BatchTimes(e) == {e.ps[i].Timestamp : i \in DOMAIN e.ps}
BatchSequences(e) == {e.ps[i].Sequence : i \in DOMAIN e.ps}

\* C7 as claimed: elapsed is max(ts) - min(ts) over the batch, hence never negative
C7_ElapsedSpan ==
    \A e \in emitted :
        /\ e.msg.Elapsed = MaxOf(BatchTimes(e)) - MinOf(BatchTimes(e))
        /\ e.msg.Elapsed >= 0

\* no item of the batch has both a sequence not larger and a timestamp larger than
\* another item
TimeFollowsSequence(e) ==
    \A i, j \in DOMAIN e.ps :
        e.ps[i].Sequence <= e.ps[j].Sequence => e.ps[i].Timestamp <= e.ps[j].Timestamp

\* C7 as amended: elapsed is the timestamp of the item the sort by sequence puts
\* last minus that of the item it puts first (an item of maximal sequence and
\* another item of minimal sequence); it is max(ts) - min(ts), and not negative,
\* when the timestamps of the batch follow its sequences.
C7_ElapsedLastFirst ==
    \A e \in emitted :
        /\ \E f, l \in DOMAIN e.ps :
             /\ e.ps[f].Sequence = MinOf(BatchSequences(e))
             /\ e.ps[l].Sequence = MaxOf(BatchSequences(e))
             /\ (Len(e.ps) > 1 => f # l)
             /\ e.msg.Sequence = e.ps[f].Sequence
             /\ e.msg.Elapsed = e.ps[l].Timestamp - e.ps[f].Timestamp
        /\ TimeFollowsSequence(e) =>
             e.msg.Elapsed = MaxOf(BatchTimes(e)) - MinOf(BatchTimes(e))

\* C7, witness: a Message of two items whose timestamps follow their sequences and
\* differ
C7_Witness ==
    \E e \in emitted :
        /\ Len(e.ps) = 2 /\ TimeFollowsSequence(e)
        /\ e.msg.Elapsed > 0

\* the goroutines and Messages that hold item p in their batch
HoldersOf(p) == {x \in tasks \cup emitted : p \in Range(x.ps)}

\* C8: every item handed to the pool is in the batch of at most one Message, and of
\* exactly one goroutine or Message once a tick has followed its reception; that
\* Message carries the item's own key; the cache holds only items received since
\* the last tick (so it is empty right after a tick).
C8_CountedOnce ==
    /\ \A j \in DOMAIN handed :
         LET p == handed[j]
             H == HoldersOf(p) IN
         /\ Cardinality(H) <= 1
         /\ Cardinality(H) = 1 <=> (j \in DOMAIN arrived /\ arrived[j] < nticks)
         /\ \A e \in H \cap emitted :
              /\ MsgKey(e.msg) = OwnKey(p)
              /\ e.msg.Count = Len(e.ps)
              /\ \A i, i2 \in DOMAIN e.ps : i # i2 => e.ps[i].id # e.ps[i2].id
         /\ \A t \in H \cap tasks : t.k = OwnKey(p)
    /\ \A k \in DOMAIN cache :
         /\ cache[k] # <<>>
         /\ \A i \in DOMAIN cache[k] :
              /\ cache[k][i].id \in DOMAIN arrived
              /\ arrived[cache[k][i].id] = nticks
              /\ OwnKey(cache[k][i]) = k

\* C8, witness: two items of different keys received before the same tick are
\* counted in two Messages
C8_Witness ==
    \E e1, e2 \in emitted :
        /\ e1.tick = e2.tick
        /\ MsgKey(e1.msg) # MsgKey(e2.msg)
        /\ DOMAIN cache = {}

----------------------------------------------------------------------------
(* Properties of the HRDP store *)

Window(gen) == gen \div FiveMinutes

\* C9: every file write of the store is caused by a product whose 5-minute window
\* differs from that of the product before it, and writes a non-empty buffer.
C9_FlushOnNewWindow ==
    \A w \in DOMAIN writes :
        LET j == writes[w].by IN
        /\ writes[w].content # <<>>
        /\ j > 1
        /\ Window(stored[j].gen) # Window(stored[j - 1].gen)

\* C10: no file is written twice, no record is in two files, and every record that
\* has left the buffer is in exactly one file.
C10_FlushOnce ==
    /\ \A a, b \in DOMAIN writes : a # b => writes[a].path # writes[b].path
    /\ \A j \in DOMAIN stored :
         LET holding == {f \in DOMAIN files : \E i \in DOMAIN files[f] : files[f][i].id = j}
             inBuf   == \E i \in DOMAIN buf : buf[i].id = j IN
         /\ Cardinality(holding) <= 1
         /\ (stored[j].io = "ok" /\ ~inBuf) => Cardinality(holding) = 1

----------------------------------------------------------------------------
(* Properties of multistore.Store and multiModule.Process *)

\* the sinks or children that return an error when called
Failing == {j \in DOMAIN fouts : fouts[j] # "nil"}

AllInOrder == fcalls = [j \in DOMAIN fouts |-> j]

\* C11: multistore.Store calls every sink exactly once and in order, also after a
\* failure, and returns the error of the last sink that failed (nil if and only if
\* no sink failed).
C11_StoreLastError ==
    (fkind = "store" /\ fpc = "returned") =>
        /\ AllInOrder
        /\ ferr = (IF Failing = {} THEN "nil" ELSE fouts[MaxOf(Failing)])

\* C11, witness: a sink failed with one error, a later sink failed with another,
\* a sink after them succeeded, and Store has returned
C11_Witness ==
    /\ fkind = "store" /\ fpc = "returned"
    /\ fouts = <<"ea", "eb", "nil">>

\* C12 as claimed: multiModule.Process calls every child in order, also after a
\* failure, and returns the error of the last child that failed.
C12_ProcessLastError ==
    (fkind = "process" /\ fpc = "returned") =>
        /\ AllInOrder
        /\ ferr = (IF Failing = {} THEN "nil" ELSE fouts[MaxOf(Failing)])

\* C12 as amended: the same, but the error returned is that of the first child that
\* failed (nil if and only if no child failed).
C12_ProcessFirstError ==
    (fkind = "process" /\ fpc = "returned") =>
        /\ AllInOrder
        /\ ferr = (IF Failing = {} THEN "nil" ELSE fouts[MinOf(Failing)])

\* C12, witness: two children failed with different errors and Process has returned
C12_Witness ==
    /\ fkind = "process" /\ fpc = "returned"
    /\ fouts = <<"nil", "ea", "eb">>

----------------------------------------------------------------------------
(* Properties of the VMU decoders, Valid and Filename *)

\* the payload without its last four bytes, and those four bytes
BodyOf(bs) == SubSeq(bs, 1, Len(bs) - 4)
TrailerOf(bs) == SubSeq(bs, Len(bs) - 3, Len(bs))

\* the trailing 4 bytes of the payload hold the running byte sum of the bytes before
GoodTrailer(bs) == Len(bs) >= 4 /\ TrailerOf(bs) = ToLE32(PlainSum(BodyOf(bs)))

\* the bytes of the payload that the layout l, starting at offset off, does not keep
\* are zero
ZeroPadding(l, off, bs) ==
    \A k \in DOMAIN l : ~l[k][3] =>
        \A i \in 1..l[k][2] : bs[off + FieldOffset(l, k) + i] = 0

ZeroPadded(ver, bs) ==
    /\ ZeroPadding(VMULayout, 0, bs)
    /\ ZeroPadding(LayoutFor(ver, bs[1]), VMUHeaderLength, bs)

Decoded == vpc \in {"valid", "done"} /\ vres.err = "nil"

\* C18: a payload with zero padding whose trailing 4 bytes hold the running byte sum
\* of the bytes before them, decoded with either version, gives a product whose
\* stored checksum is those 4 bytes and for which Valid is true.
C18_ChecksumStored ==
    (Decoded /\ GoodTrailer(vbs) /\ ZeroPadded(vver, vbs)) =>
        /\ vres.p.Sum = TrailerOf(vbs)
        /\ vpc = "done" => vvalid

\* C20: Valid(p) is true exactly when the sum of the bytes of Bytes(p) without its
\* last 4 bytes equals the stored checksum, for every Image and Table the decoders
\* give.
C20_ValidLaw ==
    (Decoded /\ vpc = "done") =>
        (vvalid <=> ToLE32(PlainSum(BodyOf(Bytes(vres.p)))) = vres.p.Sum)

\* C20, witness: Valid was true of a product whose stored checksum is not zero
C20_Witness ==
    /\ Decoded /\ vpc = "done" /\ vvalid
    /\ vres.p.Sum # Zeros(4) /\ vres.p.kind = "Image"

----------------------------------------------------------------------------
(* Properties of the listen command (SpecListen) *)

\* the tags of a sequence of items
Tags(items) == [i \in DOMAIN items |-> items[i].tag]

StoredItems == [i \in DOMAIN lstored |-> lstored[i].item]

StoredTags == {lstored[i].item.tag : i \in DOMAIN lstored}

\* the packet of rank j of connection c was emitted with a version Convert has no
\* decoder for
UnsupportedVersionAt(c, j) ==
    j \in DOMAIN conns[c].vers /\ ~KnownVersion(conns[c].vers[j])

\* C13: a packet whose prefix declares an unsupported version ends the packet sequence
\* of its connection: neither that packet nor any later packet of the connection is
\* turned into a product that reaches the storage fan-out.
C13_UnsupportedVersionTerminates ==
    \A c \in Conns : \A j \in DOMAIN conns[c].vers :
        UnsupportedVersionAt(c, j) =>
            \A i \in DOMAIN lstored :
                lstored[i].item.tag[1] = c => lstored[i].item.tag[2] < j

\* C16: the products of one connection reach fs.Store in the order in which the reader
\* of the connection emitted their packets: in the sequence of Store calls the ranks
\* of the items of one connection are strictly increasing.
C16_StoreInDecodeOrder ==
    \A i, j \in DOMAIN lstored :
        (i < j /\ lstored[i].item.tag[1] = lstored[j].item.tag[1])
            => lstored[i].item.tag[2] < lstored[j].item.tag[2]

\* C16 witness: two products made from two packets framed one after the other on the
\* same connection have both been stored.
C16_Witness ==
    \E i, j \in DOMAIN lstored :
        i < j /\ lstored[i].item.tag = <<1, 1>> /\ lstored[j].item.tag = <<1, 2>>

\* C17: when runListen has returned, every item it received from Convert has been
\* stored and has been processed by the module pipeline: nothing is left in queue.
C17_DrainedBeforeReturn ==
    mpc = "returned" => (mqueue = <<>> /\ processed = Tags(StoredItems))

\* the tags of the packets and items that are on their way to fs.Store
InFlight ==
    {conns[c].pkt.tag : c \in {d \in Conns : conns[d].rpc = "send"}}
        \cup {lq[i].tag : i \in DOMAIN lq}
        \cup (IF cvpc = "send" THEN {cvitem.tag} ELSE {})
        \cup (IF mpc = "store" THEN {mitem.tag} ELSE {})

\* the items stored and not yet processed, in order
Enqueued == mqueue \o (IF mpc = "enqueue" THEN <<mitem>> ELSE <<>>)

RECURSIVE Within(_)
\* the tags of the stored items for which the age test was true
Within(st) ==
    IF st = <<>> THEN <<>>
    ELSE (IF Head(st).within THEN <<Head(st).item.tag>> ELSE <<>>) \o Within(Tail(st))

\* C19: a product whose checksum does not match is routed like any other product:
\* every packet emitted with a version that has a decoder (all of them carry a
\* decodable payload here, with a matching checksum or not) is on its way to fs.Store
\* or has been stored; every stored item has been handed to pool.Notify exactly when
\* the age test (age is 0 or the item is recent enough) is true; every stored item is processed,
\* in queue or about to be sent on it; and the Filename of the product that fs.Store
\* has just been given ends in "bad" if and only if Valid is false for it.
C19_InvalidStillRouted ==
    /\ \A c \in Conns : \A j \in DOMAIN conns[c].vers :
         KnownVersion(conns[c].vers[j]) => <<c, j>> \in InFlight \cup StoredTags
    /\ lnotified = Within(lstored)
    /\ Tags(StoredItems) = processed \o Tags(Enqueued)
    /\ mpc = "enqueue" =>
         LET hr == mitem.HRPacket
             ext == ProductFilename(hr).ext IN
         (ext[Len(ext)] = "bad") <=> ~Valid(hr)

\* C19 witness: a product whose checksum does not match has been stored, handed to
\* pool.Notify and processed by the module pipeline.
C19_Witness ==
    \E i \in DOMAIN lstored :
        /\ ~Valid(lstored[i].item.HRPacket)
        /\ \E j \in DOMAIN lnotified : lnotified[j] = lstored[i].item.tag
        /\ \E j \in DOMAIN processed : processed[j] = lstored[i].item.tag

----------------------------------------------------------------------------
(* Properties of the v2 decoder's length gate (SpecVmu) *)

\* C21: decodeVMUv2 answers "packet size to short" exactly for the payloads shorter
\* than VMUHeaderLength + IDHeaderLengthV2 (92 bytes, the longer of the two headers)
\* and lets every payload of at least that length through.
C21_LengthGate ==
    (vver = VMUProtocol2 /\ vpc # "decode") =>
        ((vres.err = "packet size to short")
            <=> (Len(vbs) < VMUHeaderLength + IDHeaderLengthV2))

----------------------------------------------------------------------------
(* Properties of the proxy (SpecProxy) *)

\* C22: every call of Write returns (len(bs), nil), whatever the writer and the
\* flush answered and whether or not a redial took place.
C22_WriteFireAndForget ==
    \A i \in DOMAIN plog : plog[i].ret = <<plog[i].n, "nil">>

\* C22 witness: a Write whose flush failed with a permanent net.Error, then a Write
\* whose writer answered that error and whose redial failed.
C22_Witness ==
    /\ Len(plog) = 2
    /\ plog[1].err = "nil" /\ plog[1].flush = "permanent"
    /\ plog[2].err = "permanent" /\ ~plog[2].redialed

\* C23: after a Write that redialed with success, every later Write goes through a
\* gzip writer of the configured level on the new socket if DialProxy was given a
\* level, and through the new socket itself if it was not.
C23_RewrapAfterRedial ==
    \A i, j \in DOMAIN plog :
        (i < j /\ plog[i].redialed) =>
            /\ plog[j].via.sock = plog[i].via.sock + 1
            /\ plog[j].via = IF pz THEN GzipWriter(plog[j].via.sock, plevel)
                             ELSE ConnWriter(plog[j].via.sock)

----------------------------------------------------------------------------
(* Properties of the rate limiter (SpecLim) *)

\* C24: of the RateLimit + 10 requests of one address that arrive before a token is
\* refilled, at most 10 are admitted, and once all of them are answered at least one
\* has been denied, whatever the interleaving of their handlers.
C24_AtMostBurstAdmitted ==
    /\ ladmitted <= Burst
    /\ (ladmitted + ldenied = Requests) => ldenied >= 1

----------------------------------------------------------------------------
(* Properties of the file name of the HRDP store (SpecHrdp) *)

\* the two digits of a minute, if n is one
TwoDigits(n) == IF n \in 0..59 THEN <<Digit[(n \div 10) + 1], Digit[(n % 10) + 1]>> ELSE <<>>

\* C30: a flush made for a product whose generation time truncated to 5 minutes has
\* the minute MM writes the file rt_<MM-5>_<MM-1>.dat, both fields being two digits,
\* under the HRDP path of the instance and of that time.
C30_FlushFileName ==
    \A w \in DOMAIN writes :
        LET j == writes[w].by
            t == Truncate(stored[j].gen, FiveMinutes)
            MM == Minute(t) IN
        writes[w].path = <<joinPathHRDP(t, stored[j].instance),
                           <<"rt", TwoDigits(MM - 5), TwoDigits(MM - 1)>> >>

----------------------------------------------------------------------------
(* Properties of the file store, of the path builder and of NewHTTPStorage
   (SpecStorage) *)

\* C25: a file, once written, keeps its content, and so does its hard link in the
\* mirror: every path of the file system holds the content it was created with.
C25_WrittenOnce ==
    \A x \in DOMAIN fsys.names : ContentOf(fsys, x) = fcreated[x]

\* the time directories of a path: what follows the five elements base, instance,
\* type, source and origin
TimeDirs(path) == SubSeq(path, 6, Len(path))

\* C27: for g > 0 the directory of a stored product ends, after the element of the
\* year, day and hour, in the two digits of floor(minute / g) * g, the minute being
\* that of the adjusted timestamp; for g = 0 it ends with the hour element.
C27_MinuteGranularity ==
    \A k \in DOMAIN fslog :
        LET t == fslog[k].p.vmu + Epoch
            hour == <<t \div 3600>> IN
        TimeDirs(fslog[k].dir) =
            IF fgranul > 0
            THEN hour \o <<TwoDigits((Minute(t) \div fgranul) * fgranul)>>
            ELSE hour

\* C28, as the code has it: with alt = true (the mirror) the time directories are
\* those of the timestamp of the sub-header, with alt = false (the data directory)
\* those of the timestamp of the VMU header.
C28_AltSelectsSubHeaderTime ==
    \A k \in DOMAIN fslog :
        /\ TimeDirs(fslog[k].hard) = joinPathTime(<<>>, fslog[k].p.sub, fgranul)
        /\ TimeDirs(fslog[k].dir) = joinPathTime(<<>>, fslog[k].p.vmu, fgranul)

\* C28 witness: an image whose two timestamps differ has been stored and linked in
\* the mirror.
C28_Witness ==
    \E k \in DOMAIN fslog :
        /\ fslog[k].p.vmu # fslog[k].p.sub /\ fslog[k].err = "nil" /\ fhard
        /\ Exists(fsys, Append(fslog[k].hard, <<fslog[k].p.name>>))

\* C28 as stated: with alt = true (the mirror) the time directories are those of the
\* timestamp of the VMU header, with alt = false (the data directory) those of the
\* timestamp of the sub-header.
C28_AltSelectsVMUTime ==
    \A k \in DOMAIN fslog :
        /\ TimeDirs(fslog[k].hard) = joinPathTime(<<>>, fslog[k].p.vmu, fgranul)
        /\ TimeDirs(fslog[k].dir) = joinPathTime(<<>>, fslog[k].p.sub, fgranul)

\* C29: NewHTTPStorage returns a store exactly for the locations whose scheme is http
\* or https, and an error for every other one.
C29_HTTPSchemes ==
    (hres # "none" /\ hin.parses) =>
        ((hres = "store") <=> (hin.scheme \in {"http", "https"}))

----------------------------------------------------------------------------
(* Properties of the notifiers (SpecNotify) *)

\* the Options accept the message: the instance is any or that of the message, the
\* channels are any or hold that of the message, the source is any or matches
Accepted(o, msg) ==
    /\ o.Instance < 0 \/ o.Instance = msg.Instance
    /\ o.Channels = <<>> \/ \E i \in DOMAIN o.Channels : o.Channels[i] = msg.Channel
    /\ \/ o.Source = ""
       \/ o.Source = "realtime" /\ msg.Realtime
       \/ o.Source = "playback" /\ ~msg.Realtime

\* C26: a notifier emits a message if and only if its Options accept it, and Notify
\* returns nil either way.
C26_EmitsIffAccepted ==
    \A k \in DOMAIN nlog :
        /\ nlog[k].ret = "nil"
        /\ nlog[k].emitted <=> Accepted(nopts, nlog[k].msg)

----------------------------------------------------------------------------
(* Further properties of the decoders, of ListenPackets, of the limiter and of the
   HRDP store *)

\* C36: decodeVMUv1 and decodeVMUv2 answer every payload, however short, with a
\* product or with an error: no call ends in a runtime panic.
C36_DecodersNeverPanic ==
    vpc # "decode" => vres.err # "panic"

\* C37: no goroutine of a connection sends on the channel q of ListenPackets once
\* the accepting goroutine has closed it: no run ends in the panic of such a send.
C37_NoSendOnClosedChannel ==
    ~(crashed /\ lclosed /\ \E c \in Conns : conns[c].rpc = "send")

\* C38: all the requests of the address are decided against one token bucket: at
\* most one visitor is ever made for it between two purges.
C38_SingleBucket ==
    Len(ltokens) <= 1

\* an iteration of the loop of DecodeBinaryPackets that consumes nothing and ends in
\* continue: the reader is where it was, so every later iteration does the same and
\* the loop neither ends nor closes q
Spinning ==
    /\ mode = "binary" /\ rpc = "decode"
    /\ \A res \in DecodePacket(r, pos) :
         /\ res.pos = pos
         /\ Switch(ReadError(res.err), NotAllowed(is, res.p)) = "continue"

\* C31: the fragments preparePacketV2 makes of a payload of L >= 1 bytes with a chunk
\* size S in 1..L number ceil(L/S), carry curr = 0..n-1 and last = n-1, and
\* DecodePacket on their bytes yields one packet with the payload.
C31_FragmentsRoundTrip ==
    tpc = "done" =>
        LET n == (Len(tbs) + tsize - 1) \div tsize IN
        /\ Len(tframes) = n
        /\ \A k \in 1..n : tframes[k].curr = k - 1 /\ tframes[k].last = n - 1
        /\ tres.err = "nil" /\ tres.p.Payload = tbs

\* C32: every Message built is handed exactly once to every notifier of the pool, and
\* no Notify call, blocked or failed, holds the pool back: Pool.Notify is accepted
\* whenever the queue has room, an item in the queue can be received, a tick can be
\* handled and a batch can be turned into its Message.
C32_DispatchOnceNoBackPressure ==
    /\ \A n \in DOMAIN notifiers :
         /\ DOMAIN ncalls[n] = emitted
         /\ \A e \in emitted : ncalls[n][e] = 1
    /\ (Len(handed) < MaxItems /\ Len(queue) < QueueCap) => ENABLED Notify
    /\ queue # <<>> => ENABLED Receive
    /\ nticks < MaxTicks => ENABLED Tick
    /\ tasks # {} => ENABLED RunTask

\* C32, witness: two Messages of different ticks were built and handed to a notifier
\* whose Notify never returns and to one whose Notify fails
C32_Witness ==
    /\ \E n, k \in DOMAIN notifiers :
         /\ notifiers[n] = "block" /\ running[n] = 2
         /\ notifiers[k] = "error" /\ running[k] = 0
    /\ \E e1, e2 \in emitted : e1.tick < e2.tick

\* the same file under two names
SameFile(fs, x, y) == Exists(fs, x) /\ Exists(fs, y) /\ fs.names[x] = fs.names[y]

\* C33: a Store that writes the file of an Image also writes <name>.xml in the same
\* directory, and with the mirror active both are hard-linked under the same names in
\* the mirror directory; a Store of a Table writes no .xml.
C33_ImageHasMetadata ==
    \A k \in DOMAIN fslog :
        LET e == fslog[k]
            file == <<e.p.name>>
            meta == <<e.p.name, "xml">> IN
        /\ (e.p.kind = "Image" /\ Append(e.dir, file) \in e.wrote) =>
              /\ Append(e.dir, meta) \in e.wrote
              /\ fhard => /\ SameFile(fsys, Append(e.dir, file), Append(e.hard, file))
                          /\ SameFile(fsys, Append(e.dir, meta), Append(e.hard, meta))
        /\ e.p.kind = "Table" => Append(e.dir, meta) \notin e.wrote

\* C34: purge deletes the visitor of an address only if, when it deletes it, the
\* visitor has been idle for 2 minutes: a visitor that made a request between the scan
\* and the delete stays in the map.
C34_DeletedOnlyIdle ==
    \A d \in sdeleted : d.idle >= IdleSeconds

\* C35: the frame reader never busy-waits: when every read of the connection fails,
\* with EOF or with another error, DecodeBinaryPackets does not retry the read from
\* where it stands but returns and closes its channel.
C35_NoBusyWait ==
    ~Spinning

\* Run is at a send that no goroutine is there to receive: the only receiver of
\* p.start is the select of Run itself, and p.failures is received only by a caller
\* that is in check
Blocked ==
    \/ wrpc = "start"
    \/ wrpc = "failures" /\ \A c \in Callers : wcall[c].pc # "check"

\* C39: the worker pool is deadlock-free: Run is never at a send that nobody
\* receives, so it always comes back to its select and every call returns.
C39_DeadlockFree ==
    ~Blocked

\* C40: every file the HRDP store writes has its two minute fields within 00..59 and
\* lies in the year/day/hour directory of the 5-minute window of each record it
\* holds.
C40_FlushedFileInWindow ==
    \A w \in DOMAIN writes :
        LET path == writes[w].path
            i == stored[writes[w].by].instance IN
        /\ \E a, b \in 0..59 : path[2] = <<"rt", TwoDigits(a), TwoDigits(b)>>
        /\ \A k \in DOMAIN writes[w].content :
             path[1] = joinPathHRDP(Truncate(writes[w].content[k].gen, FiveMinutes), i)

====
